---- MODULE Spec2Model ----
(***************************************************************************)
(* A state-machine model of the kubescape lifecycle manager (KubescapeApi  *)
(* and the module-level helpers around it).  One action per continuation   *)
(* of the asynchronous code: every await of the source is a suspension     *)
(* point, and the synchronous code between two awaits is one action.       *)
(*                                                                         *)
(* Strings are modelled as sequences of pieces (a piece is an opaque run   *)
(* of characters), so that decoding, resolving and expanding a path are    *)
(* real conversions.  An optional value (undefined in the source) is the   *)
(* empty tuple, a defined one is the one-element tuple holding it.         *)
(***************************************************************************)
EXTENDS Integers, Sequences, FiniteSets, TLC

VARIABLES
    os,             \* os.platform()
    arch,           \* os.arch()
    cfg,            \* the IKubescapeConfig the caller passes to setup
    disk,           \* binary locations -> what the file there is
    fwFiles,        \* directory -> the files in it, in readdir order
    unlinkPending,  \* locations with an fs.unlink issued and not yet done
    tokAborted,     \* the caller's AbortController: signal.aborted
    unhandled,      \* an exception escaped in an event-loop callback
    isInitialized,  \* KubescapeApi._isInitialized
    isInstalled,    \* KubescapeApi._isInstalled
    kpath,          \* KubescapeApi._path
    frameworkDir,   \* KubescapeApi._frameworkDir
    versionInfo,    \* KubescapeApi._versionInfo
    frameworks,     \* KubescapeApi._frameworks (keys in insertion order)
    call            \* the calls the caller makes: position, locals, outcome

vars == <<os, arch, cfg, disk, fwFiles, unlinkPending, tokAborted, unhandled,
          isInitialized, isInstalled, kpath, frameworkDir, versionInfo,
          frameworks, call>>

envVars == <<os, arch, cfg>>
apiVars == <<isInitialized, isInstalled, kpath, frameworkDir, versionInfo, frameworks>>

----------------------------------------------------------------------------
\* Bounds of the model

\* how many calls (setup, install, installFrameworks) one behaviour makes
MaxCalls == 2

Calls == 1..MaxCalls

----------------------------------------------------------------------------
\* Optional values

None == <<>>
Some(x) == <<x>>
IsSome(o) == Len(o) = 1
Val(o) == o[1]

----------------------------------------------------------------------------
\* Program constants

TXT_LATEST == "latest"

UNKNOWN == "unknown"

ERROR_KUBESCAPE_NOT_INSTALLED == "Kubescape is not installed!"

\* the concrete release tags of the model (v<major>.<minor>.<patch>)
VERS == {"v2.0.144", "v2.0.150"}

\* what a release-registry query yields: a tag, a document without the
\* field asked for, or a network / parse failure
NOFIELD == "undefined"
RegistryOutcomes == VERS \cup {NOFIELD, "fail"}

----------------------------------------------------------------------------
\* Paths

CWD  == "/cwd/"
HOME == "/home"
\* the one environment variable that is set, and its value
ENVVAR == "$V"
ENVVAL == "val"

\* decodeURIComponent: a bare "%" (not followed by two hex digits) is
\* malformed and raises URIError; "%25" decodes to "%"
DecodeThrows(s) == \E i \in 1..Len(s) : s[i] = "%"

DecodePiece(p) ==
    CASE p = "%25"   -> "%"
      [] p = "%2525" -> "%25"
      [] OTHER       -> p

decodeURIComponent(s) == [i \in 1..Len(s) |-> DecodePiece(s[i])]

\* path.resolve(s): an absolute path stays, a relative one is put under cwd
resolve(s) == IF Len(s) > 0 /\ s[1] = CWD THEN s ELSE <<CWD>> \o s

\* path.join(dir, file)
join(dir, file) == Append(dir, file)

\* String.replace(from, to) with a string pattern: the first occurrence only
ReplaceFirst(s, from, to) ==
    IF \E i \in 1..Len(s) : s[i] = from
    THEN LET i == CHOOSE k \in 1..Len(s) :
                     s[k] = from /\ \A j \in 1..(k-1) : s[j] /= from
         IN  [s EXCEPT ![i] = to]
    ELSE s

expand(str) ==
    IF Len(str) = 0 THEN str
    ELSE LET home == IF str[1] = "~" THEN <<HOME>> \o Tail(str) ELSE str
         IN  ReplaceFirst(home, ENVVAR, ENVVAL)

getOsKubescapeFilename(platform) ==
    IF platform = "win32" THEN "kubescape.exe" ELSE "kubescape"

getKubescapePath(basedir, platform) ==
    LET decodedBaedir == resolve(decodeURIComponent(basedir))
    IN  [baseDir  |-> decodedBaedir,
         fullPath |-> join(expand(decodedBaedir), getOsKubescapeFilename(platform))]

isWindows(platform) == platform = "win32"

\* a choice that ignores the platform (sensitivity of C24)
chooseUbuntuAsset(platform, architecture) == <<"kubescape", "-ubuntu-latest">>

chooseKubescapeAsset(platform, architecture) ==
    LET prefix == IF architecture = "arm64" THEN "kubescape-arm64" ELSE "kubescape"
    IN  CASE platform = "linux"  -> <<prefix, "-ubuntu-latest">>
          [] platform = "darwin" -> <<prefix, "-macos-latest">>
          [] platform = "win32"  -> <<prefix, ".exe">>
          [] OTHER               -> <<NOFIELD>>

\* where downloadFile writes: path.resolve(decodeURIComponent(downloadDir), fileName)
DownloadPath(downloadDir, platform) ==
    join(resolve(decodeURIComponent(downloadDir)), getOsKubescapeFilename(platform))

----------------------------------------------------------------------------
\* The file at a binary location

\* absent: no file; broken: a file that does not run; partial: a download
\* cut short; noexec: a complete download whose chmod failed; nover: a
\* binary whose version output holds no v<major>.<minor>.<patch> token;
\* a tag of VERS: the release binary of that tag
BinStates == {"absent", "broken", "partial", "noexec", "nover"} \cup VERS

\* cp.exec of the file can succeed
Runnable(b) == b \in VERS \cup {"nover"}

\* the locations one configuration can touch: the probed path, the path a
\* direct install(version, baseDirectory) writes, the path setup's install
\* (called with the directory accessor) writes
Locations(bd, platform) ==
    IF DecodeThrows(bd) THEN {}
    ELSE LET p == getKubescapePath(bd, platform)
         IN  {p.fullPath, DownloadPath(bd, platform)}
             \cup (IF DecodeThrows(p.baseDir) THEN {}
                   ELSE {DownloadPath(p.baseDir, platform)})

----------------------------------------------------------------------------
\* Calls

IdleCall ==
    [pc          |-> "idle",
     kind        |-> "none",
     result      |-> "none",     \* none | pending | true | false | rejected
     abortTok    |-> FALSE,      \* an AbortController was passed
     probe       |-> "none",     \* what isKubescapeInstalled resolved to: ok | failed
     needsUpdate |-> FALSE,
     detected    |-> "none",     \* this.version as phase 3 compares it
     latestTag   |-> "none",     \* latestVersionTag of phase 3
     log         |-> <<>>,       \* subprocess, network and file-system calls issued
     verRet      |-> "none",     \* where getKubescapeVersion returns to
     verLocal    |-> UNKNOWN,    \* verInfo.version inside getKubescapeVersion
     downloadDir |-> None,       \* downloadFile's downloadDir argument
     dlUrl       |-> None,       \* downloadFile's url: <<tag, asset>>
     dlOk        |-> FALSE,      \* downloadFile returned a non-empty path
     fw          |-> <<>>,       \* downloadMissingFrameworks: one promise per name
     tmp         |-> "none",     \* withTempDir's directory: present | removing | removed
     report      |-> "none",     \* what the scan found as result file
     scanned     |-> None,       \* the report as the scanner wrote it
     listed      |-> <<>>,       \* what the readdir of the framework directory gave
     value       |-> None,       \* the value the scan resolved with
     asked       |-> <<>>]       \* the list installFrameworks was called with

\* the synchronous positions: code that runs without suspending
SyncPcs == {"reconcile", "phase4", "install", "dlBegin", "dlRet", "phase5",
            "required", "select"}

\* one control thread: while a call is in synchronous code no other runs
Turn(c) == \A d \in Calls \ {c} : call[d].pc \notin SyncPcs

\* the caller awaits each call before it makes the next
Sequential(c) ==
    /\ call[c].pc = "idle"
    /\ \A d \in Calls : d < c => call[d].pc = "settled"
    /\ \A d \in Calls : d > c => call[d].pc = "idle"

Settle(c, r) == [call EXCEPT ![c].pc = "settled", ![c].result = r]

\* an exception thrown in a callback the event loop runs: nothing settles
\* the promise the call awaits
Hang(c) == [call EXCEPT ![c].pc = "hung"]

TokChoices == {"none", "held", "fresh"}

\* what is kept of a settled call once the caller makes the next one: its
\* kind and outcome, the subprocesses it left running and its temporary
\* directory
Archive(r) ==
    [IdleCall EXCEPT !.pc = r.pc, !.kind = r.kind, !.result = r.result, !.tmp = r.tmp,
                     !.fw = [i \in 1..Len(r.fw) |->
                                IF r.fw[i].st = "pending" THEN r.fw[i]
                                ELSE [r.fw[i] EXCEPT !.st = "done", !.res = None]]]

\* call c begins as rec
Begin(c, rec) ==
    [d \in Calls |-> IF d = c THEN rec
                     ELSE IF call[d].pc = "settled" THEN Archive(call[d])
                     ELSE call[d]]

----------------------------------------------------------------------------
\* setup, phases 1-4 (path, install probe, version reconciliation, install)

\* a guard that never finds the instance initialized (sensitivity of C1)
NeverInitialized == FALSE

\* "initialize only once": the guard setup starts with
AlreadyInitialized == isInitialized

\* setup(ui, configs, abort) from its entry to its first await: the
\* initialized guard, phase 1, and the install probe issued
SetupEnter(c, tok) ==
    /\ tokAborted' = IF tok = "fresh" THEN FALSE ELSE tokAborted
    /\ LET base == [IdleCall EXCEPT !.kind = "setup", !.result = "pending",
                                    !.abortTok = (tok /= "none")]
       IN  IF AlreadyInitialized
           THEN /\ call' = Begin(c, [base EXCEPT !.pc = "settled", !.result = "true"])
                /\ UNCHANGED kpath
           ELSE IF DecodeThrows(cfg.baseDirectory)
           THEN /\ call' = Begin(c, [base EXCEPT !.pc = "settled", !.result = "rejected"])
                /\ UNCHANGED kpath
           ELSE /\ kpath' = Some(getKubescapePath(cfg.baseDirectory, os))
                /\ call' = Begin(c, [base EXCEPT !.pc = "probe",
                                                 !.log = <<<<"exec", "help">>>>])
    /\ UNCHANGED <<envVars, disk, fwFiles, unlinkPending, unhandled,
                   isInitialized, isInstalled, frameworkDir, versionInfo, frameworks>>

\* setup called by a caller that awaits each call
SetupStart(c, tok) == Sequential(c) /\ SetupEnter(c, tok)

\* a caller that does not await: call c begins while the earlier calls are
\* suspended at an await or settled
Overlapping(c) ==
    /\ call[c].pc = "idle"
    /\ Turn(c)
    /\ \A d \in Calls : d < c => call[d].pc /= "idle"

\* setup called without awaiting the earlier calls
SetupStartOverlapping(c, tok) == Overlapping(c) /\ SetupEnter(c, tok)

\* getKubescapeVersion(kind) up to its cp.exec; raises when not installed
CallGetVersion(c, ret, installed) ==
    IF installed
    THEN [call EXCEPT ![c].pc = "version", ![c].verRet = ret, ![c].verLocal = UNKNOWN,
                      ![c].log = Append(@, <<"exec", "version">>)]
    ELSE Settle(c, "rejected")

\* isKubescapeInstalled resolved: any exec error resolves false
ProbeDone(c, ok) ==
    /\ call[c].pc = "probe"
    /\ Turn(c)
    /\ ok => Runnable(disk[Val(kpath).fullPath])
    /\ isInstalled' = ok
    /\ call' = IF ok
               THEN [CallGetVersion(c, "reconcile", TRUE) EXCEPT ![c].needsUpdate = FALSE,
                                                                 ![c].probe = "ok"]
               ELSE [call EXCEPT ![c].pc = "phase4", ![c].needsUpdate = TRUE,
                                 ![c].probe = "failed"]
    /\ UNCHANGED <<envVars, disk, fwFiles, unlinkPending, tokAborted, unhandled,
                   isInitialized, kpath, frameworkDir, versionInfo, frameworks>>

\* the callback of the version subcommand
VersionDone(c, ok) ==
    /\ call[c].pc = "version"
    /\ Turn(c)
    /\ ok => Runnable(disk[Val(kpath).fullPath])
    /\ LET out == disk[Val(kpath).fullPath]
       IN  IF ~ok
           THEN \* throw Error(stderr) inside the async callback
                /\ call' = [Hang(c) EXCEPT ![c].log = Append(@, <<"throw", "version">>)]
                /\ unhandled' = TRUE
                /\ UNCHANGED versionInfo
           ELSE IF out \in VERS /\ cfg.version = TXT_LATEST
           THEN /\ call' = [call EXCEPT ![c].pc = "verLatest", ![c].verLocal = out,
                                        ![c].log = Append(@, <<"http", "latest">>)]
                /\ UNCHANGED <<unhandled, versionInfo>>
           ELSE /\ versionInfo' = Some(IF out \in VERS
                                       THEN [version |-> out, isLatest |-> FALSE]
                                       ELSE [version |-> UNKNOWN, isLatest |-> TRUE])
                /\ call' = [call EXCEPT ![c].pc = call[c].verRet]
                /\ UNCHANGED unhandled
    /\ UNCHANGED <<envVars, disk, fwFiles, unlinkPending, tokAborted,
                   isInitialized, isInstalled, kpath, frameworkDir, frameworks>>

\* getLatestVersion() awaited inside the version callback
VerLatestDone(c, r) ==
    /\ call[c].pc = "verLatest"
    /\ Turn(c)
    /\ IF r = "fail"
       THEN /\ call' = Hang(c)
            /\ unhandled' = TRUE
            /\ UNCHANGED versionInfo
       ELSE /\ versionInfo' = Some([version  |-> call[c].verLocal,
                                    isLatest |-> (r = call[c].verLocal)])
            /\ call' = [call EXCEPT ![c].pc = call[c].verRet]
            /\ UNCHANGED unhandled
    /\ UNCHANGED <<envVars, disk, fwFiles, unlinkPending, tokAborted,
                   isInitialized, isInstalled, kpath, frameworkDir, frameworks>>

\* comparisons that ignore the versions (sensitivity of C2 and of C3)
VersionNeverDiffers(requested, detected) == FALSE

VersionAlwaysDiffers(requested, detected) == TRUE

\* configs.version !== this.version
VersionDiffers(requested, detected) == requested /= detected

\* phase 3 after the version is known: does the request match it
Reconcile(c) ==
    /\ call[c].pc = "reconcile"
    /\ Turn(c)
    /\ LET version == Val(versionInfo).version
           seen == [call EXCEPT ![c].detected = version]
       IN  call' = IF VersionDiffers(cfg.version, version)
                   THEN IF cfg.version = TXT_LATEST
                        THEN [seen EXCEPT ![c].pc = "latestTag",
                                          ![c].log = Append(@, <<"http", "latest">>)]
                        ELSE [seen EXCEPT ![c].pc = "phase4", ![c].needsUpdate = TRUE]
                   ELSE [seen EXCEPT ![c].pc = "phase4"]
    /\ UNCHANGED <<envVars, disk, fwFiles, unlinkPending, tokAborted, unhandled, apiVars>>

\* getLatestVersion() awaited by setup
LatestTagDone(c, r) ==
    /\ call[c].pc = "latestTag"
    /\ Turn(c)
    /\ call' = IF r = "fail"
               THEN Settle(c, "rejected")
               ELSE [call EXCEPT ![c].pc = "phase4",
                                 ![c].latestTag = r,
                                 ![c].needsUpdate = (r /= Val(versionInfo).version)]
    /\ UNCHANGED <<envVars, disk, fwFiles, unlinkPending, tokAborted, unhandled, apiVars>>

\* phase 4: install when an update is needed
Phase4(c) ==
    /\ call[c].pc = "phase4"
    /\ Turn(c)
    /\ call' = IF call[c].needsUpdate
               THEN [call EXCEPT ![c].pc = "install",
                                 ![c].downloadDir = Some(Val(kpath).baseDir),
                                 ![c].log = Append(@, <<"install">>)]
               ELSE [call EXCEPT ![c].pc = "phase5"]
    /\ UNCHANGED <<envVars, disk, fwFiles, unlinkPending, tokAborted, unhandled, apiVars>>

----------------------------------------------------------------------------
\* install and downloadFile

\* install(version, kubescapeDir, ui, cancel) called by the user of the module
InstallStart(c, tok) ==
    /\ Sequential(c)
    /\ tokAborted' = IF tok = "fresh" THEN FALSE ELSE tokAborted
    /\ call' = Begin(c, [IdleCall EXCEPT !.kind = "install", !.result = "pending",
                                         !.abortTok = (tok /= "none"),
                                         !.pc = "install",
                                         !.downloadDir = Some(cfg.baseDirectory),
                                         !.log = <<<<"install">>>>])
    /\ UNCHANGED <<envVars, disk, fwFiles, unlinkPending, unhandled, apiVars>>

\* a url without the asset name (sensitivity of C4)
BinaryUrlBare(release) == <<release>>

\* binaryUrl: the release's download url and the asset of this host
BinaryUrl(release) == <<release>> \o chooseKubescapeAsset(os, arch)

\* an install that setup does not await (sensitivity of C22)
InstallNotAwaited(c) ==
    /\ call[c].pc = "install"
    /\ Turn(c)
    /\ call' = [call EXCEPT ![c].pc = IF call[c].kind = "setup" THEN "phase5" ELSE "dlBegin",
                             ![c].dlUrl = Some(BinaryUrl(cfg.version))]
    /\ UNCHANGED <<envVars, disk, fwFiles, unlinkPending, tokAborted, unhandled, apiVars>>

\* install: choose the download url
InstallBegin(c) ==
    /\ call[c].pc = "install"
    /\ Turn(c)
    /\ call' = IF cfg.version = TXT_LATEST
               THEN [call EXCEPT ![c].pc = "latestUrl",
                                 ![c].log = Append(@, <<"http", "latest">>)]
               ELSE [call EXCEPT ![c].pc = "dlBegin",
                                 ![c].dlUrl = Some(BinaryUrl(cfg.version))]
    /\ UNCHANGED <<envVars, disk, fwFiles, unlinkPending, tokAborted, unhandled, apiVars>>

\* getLatestVersionUrl() settled: html_url with /tag/ replaced by /download/
LatestUrlDone(c, r) ==
    /\ call[c].pc = "latestUrl"
    /\ Turn(c)
    /\ call' = IF r \in {"fail", NOFIELD}
               THEN Settle(c, "rejected")
               ELSE [call EXCEPT ![c].pc = "dlBegin",
                                 ![c].dlUrl = Some(BinaryUrl(r))]
    /\ UNCHANGED <<envVars, disk, fwFiles, unlinkPending, tokAborted, unhandled, apiVars>>

\* localPath of the running downloadFile
LocalPath(c) == DownloadPath(Val(call[c].downloadDir), os)

\* downloadFile entered: the target directory is decoded outside the try
DownloadBegin(c) ==
    /\ call[c].pc = "dlBegin"
    /\ Turn(c)
    /\ call' = IF DecodeThrows(Val(call[c].downloadDir))
               THEN [Settle(c, "rejected") EXCEPT
                        ![c].log = Append(@, <<"downloadFile">> \o Val(call[c].dlUrl))]
               ELSE [call EXCEPT ![c].pc = "mkdir",
                                 ![c].log = Append(Append(@, <<"downloadFile">> \o Val(call[c].dlUrl)),
                                                   <<"mkdir">>)]
    /\ UNCHANGED <<envVars, disk, fwFiles, unlinkPending, tokAborted, unhandled, apiVars>>

\* a catch that keeps the path (sensitivity of C21)
DownloadFailureKeepsPath(c) == [call EXCEPT ![c].pc = "dlRet", ![c].dlOk = TRUE]

\* the catch of downloadFile: localPath = ""
DownloadFailed(c) == [call EXCEPT ![c].pc = "dlRet", ![c].dlOk = FALSE]

\* fs.promises.mkdir settled
MkdirDone(c, ok) ==
    /\ call[c].pc = "mkdir"
    /\ Turn(c)
    /\ call' = IF ok
               THEN [call EXCEPT ![c].pc = "fetch",
                                 ![c].log = Append(@, <<"http", "download">> \o Val(call[c].dlUrl))]
               ELSE DownloadFailed(c)
    /\ UNCHANGED <<envVars, disk, fwFiles, unlinkPending, tokAborted, unhandled, apiVars>>

FetchOutcomes == {"error", "notok", "nobody", "ok"}

\* the abort signal of this call is raised
Aborted(c) == call[c].abortTok /\ tokAborted

\* a downloadFile that opens the write stream before it looks at the
\* response (sensitivity of C38)
FetchDoneTruncating(c, o) ==
    /\ call[c].pc = "fetch"
    /\ Turn(c)
    /\ Aborted(c) => o = "error"
    /\ disk' = [disk EXCEPT ![LocalPath(c)] = "partial"]
    /\ call' = IF o = "ok" THEN [call EXCEPT ![c].pc = "pipeline"] ELSE DownloadFailed(c)
    /\ UNCHANGED <<envVars, fwFiles, unlinkPending, tokAborted, unhandled, apiVars>>

\* fetch(url, opts) settled; on a good response the write stream opens the
\* target file (and truncates what was there)
FetchDone(c, o) ==
    /\ call[c].pc = "fetch"
    /\ Turn(c)
    /\ Aborted(c) => o = "error"
    /\ IF o = "ok"
       THEN /\ disk' = [disk EXCEPT ![LocalPath(c)] = "partial"]
            /\ call' = [call EXCEPT ![c].pc = "pipeline"]
       ELSE /\ call' = DownloadFailed(c)
            /\ UNCHANGED disk
    /\ UNCHANGED <<envVars, fwFiles, unlinkPending, tokAborted, unhandled, apiVars>>

\* stream.pipeline settled: the whole body is written (to the file, when
\* no earlier unlink removed it meanwhile), or the stream failed and the
\* partial file's unlink is issued
PipelineDone(c, ok) ==
    /\ call[c].pc = "pipeline"
    /\ Turn(c)
    /\ Aborted(c) => ~ok
    /\ IF ok
       THEN /\ disk' = [disk EXCEPT ![LocalPath(c)] =
                                      IF @ = "partial" THEN Val(call[c].dlUrl)[1] ELSE @]
            /\ call' = IF ~isWindows(os)
                       THEN [call EXCEPT ![c].pc = "chmod", ![c].log = Append(@, <<"chmod">>)]
                       ELSE [call EXCEPT ![c].pc = "dlRet", ![c].dlOk = TRUE]
            /\ UNCHANGED unlinkPending
       ELSE /\ unlinkPending' = unlinkPending \cup {LocalPath(c)}
            /\ call' = [DownloadFailed(c) EXCEPT ![c].log = Append(@, <<"unlink">>)]
            /\ UNCHANGED disk
    /\ UNCHANGED <<envVars, fwFiles, tokAborted, unhandled, apiVars>>

\* fs.promises.chmod settled; it fails on a file that is gone
ChmodDone(c, ok) ==
    /\ call[c].pc = "chmod"
    /\ Turn(c)
    /\ ok => disk[LocalPath(c)] /= "absent"
    /\ IF ok
       THEN /\ call' = [call EXCEPT ![c].pc = "dlRet", ![c].dlOk = TRUE]
            /\ UNCHANGED disk
       ELSE /\ call' = DownloadFailed(c)
            /\ disk' = [disk EXCEPT ![LocalPath(c)] = IF @ = "absent" THEN @ ELSE "noexec"]
    /\ UNCHANGED <<envVars, fwFiles, unlinkPending, tokAborted, unhandled, apiVars>>

\* an unlink that completes without removing the file (sensitivity of C7)
UnlinkForgotten(loc) ==
    /\ loc \in unlinkPending
    /\ unlinkPending' = unlinkPending \ {loc}
    /\ UNCHANGED <<envVars, disk, fwFiles, tokAborted, unhandled, apiVars, call>>

\* the fs.unlink of a partial file completes
UnlinkDone(loc) ==
    /\ loc \in unlinkPending
    /\ unlinkPending' = unlinkPending \ {loc}
    /\ disk' = [disk EXCEPT ![loc] = "absent"]
    /\ UNCHANGED <<envVars, fwFiles, tokAborted, unhandled, apiVars, call>>

\* the caller signals the AbortController it passed.  The signal is read
\* by fetch and by the response stream only, so signalling it earlier in a
\* call is the same as signalling it while the download is in flight.
Cancel ==
    /\ ~tokAborted
    /\ \E c \in Calls : call[c].abortTok /\ call[c].pc \in {"mkdir", "fetch", "pipeline"}
    /\ \A c \in Calls : call[c].pc \notin SyncPcs
    /\ tokAborted' = TRUE
    /\ UNCHANGED <<envVars, disk, fwFiles, unlinkPending, unhandled, apiVars, call>>

\* downloadFile returned (the finally), install returned, and the caller of
\* install goes on: the user, or setup's phase 4
DownloadReturn(c) ==
    /\ call[c].pc = "dlRet"
    /\ Turn(c)
    /\ IF call[c].kind = "install"
       THEN /\ call' = Settle(c, IF call[c].dlOk THEN "true" ELSE "false")
            /\ UNCHANGED <<isInstalled, tokAborted>>
       ELSE /\ isInstalled' = call[c].dlOk
            /\ IF ~call[c].dlOk
               THEN \* ui.error; abort.abort(); return false
                    IF call[c].abortTok
                    THEN /\ tokAborted' = TRUE
                         /\ call' = Settle(c, "false")
                    ELSE /\ call' = Settle(c, "rejected")
                         /\ UNCHANGED tokAborted
               ELSE /\ call' = CallGetVersion(c, "phase5", TRUE)
                    /\ UNCHANGED tokAborted
    /\ UNCHANGED <<envVars, disk, fwFiles, unlinkPending, unhandled,
                   isInitialized, kpath, frameworkDir, versionInfo, frameworks>>

----------------------------------------------------------------------------
\* Framework names, bundle files and the catalog

\* String.toLocaleLowerCase on the names of the model
Lower(n) ==
    CASE n = "NSA"      -> "nsa"
      [] n = "NSA.json" -> "nsa.json"
      [] OTHER          -> n

\* file.endsWith('.json')
EndsWithJson(fname) == fname \in {"nsa.json", "NSA.json", "mitre.json", "bad.json"}

\* frameworkFile.split('.json')[0]
Stem(fname) ==
    CASE fname = "nsa.json"   -> "nsa"
      [] fname = "NSA.json"   -> "NSA"
      [] fname = "mitre.json" -> "mitre"
      [] fname = "bad.json"   -> "bad"
      [] OTHER                -> fname

\* the file the tool writes for a framework it downloads
ToolFile(n) == CASE Lower(n) = "nsa" -> "nsa.json" [] Lower(n) = "mitre" -> "mitre.json"

\* the name the tool reports for a framework (its canonical spelling)
ToolName(n) == CASE Lower(n) = "nsa" -> "NSA" [] Lower(n) = "mitre" -> "mitre"

\* the frameworks the tool knows, in the order "download artifacts" lists them
ToolCatalog == <<"nsa", "mitre">>

Contains(seq, x) == \E i \in 1..Len(seq) : seq[i] = x

\* to[key] is truthy
HasKey(cat, key) == \E i \in 1..Len(cat) : cat[i].name = key

Entry(cat, key) == cat[CHOOSE i \in 1..Len(cat) : cat[i].name = key]

Keys(cat) == [i \in 1..Len(cat) |-> cat[i].name]

\* a merge in which the last write wins (sensitivity of C9)
RECURSIVE appendOverwriting(_, _)
appendOverwriting(to, from) ==
    IF Len(from) = 0 \/ ~IsSome(to) THEN to
    ELSE LET framework == Head(from)
             cat == Val(to)
         IN  appendOverwriting(
                 IF \E i \in 1..Len(cat) : cat[i].name = framework.name
                 THEN Some([i \in 1..Len(cat) |->
                               IF cat[i].name = framework.name THEN framework ELSE cat[i]])
                 ELSE Some(Append(cat, framework)),
                 Tail(from))

RECURSIVE appendToFrameworks(_, _)
appendToFrameworks(to, from) ==
    IF Len(from) = 0 THEN to
    ELSE LET framework == Head(from)
             key == framework.name
         IN  appendToFrameworks(
                 IF IsSome(to) /\ ~HasKey(Val(to), key)
                 THEN Some(Append(Val(to), framework))
                 ELSE to,
                 Tail(from))

\* the frameworksNames accessor
frameworksNames ==
    IF IsSome(frameworks)
    THEN Keys(SelectSeq(Val(frameworks), LAMBDA f : f.isInstalled))
    ELSE <<>>

\* compareVersions(a, b) on valid tags: -1, 0 or 1
VerNum(v) == CASE v = "v2.0.144" -> <<2, 0, 144>> [] v = "v2.0.150" -> <<2, 0, 150>>

compareVersions(a, b) ==
    LET x == VerNum(a)
        y == VerNum(b)
        d == IF x[1] /= y[1] THEN 1 ELSE IF x[2] /= y[2] THEN 2 ELSE 3
    IN  IF x[d] > y[d] THEN 1 ELSE IF x[d] < y[d] THEN -1 ELSE 0

\* compareVersions raises on a string that is no version
ValidVersion(v) == v \in VERS

\* the readdir orders of a directory
Listings(files) ==
    {l \in [1..Cardinality(files) -> files] : \A i, j \in 1..Cardinality(files) : l[i] = l[j] => i = j}

\* readFileSync(decodeURIComponent(path.join(dir, file))) gives a bundle
\* (an object with a controls collection)
ReadsBundle(dir, f) ==
    /\ ~DecodeThrows(join(dir, f.fname))
    /\ decodeURIComponent(dir) \in DOMAIN fwFiles
    /\ \E g \in fwFiles[decodeURIComponent(dir)] : g.fname = f.fname /\ g.bundle

\* a scan of the directory that keeps the spelling of the file names
\* (sensitivity of C12)
getInstalledFrameworksExactCase(dir, files) ==
    LET frameworkFiles == SelectSeq(files, LAMBDA f : EndsWithJson(f.fname) /\ ReadsBundle(dir, f))
    IN  [i \in 1..Len(frameworkFiles) |->
            [name        |-> Stem(frameworkFiles[i].fname),
             isInstalled |-> FALSE,
             location    |-> expand(join(dir, frameworkFiles[i].fname))]]

getInstalledFrameworks(dir, files) ==
    LET frameworkFiles == SelectSeq(files, LAMBDA f : EndsWithJson(f.fname) /\ ReadsBundle(dir, f))
    IN  [i \in 1..Len(frameworkFiles) |->
            [name        |-> Lower(Stem(frameworkFiles[i].fname)),
             isInstalled |-> FALSE,
             location    |-> expand(join(dir, frameworkFiles[i].fname))]]

\* the result a download subprocess reports for framework n saved under dir:
\* a JSON object on stderr from v2.0.150 on, quoted text on stdout before
DownloadResult(n, dir, version) ==
    IF compareVersions(version, "v2.0.150") >= 0
    THEN [name |-> Lower(ToolName(n)), location |-> join(dir, ToolFile(n)), isInstalled |-> FALSE]
    ELSE [name |-> Lower(n), location |-> join(dir, ToolFile(n)), isInstalled |-> FALSE]

\* the directories a configuration can use as framework directory
FwDirs(c, platform) ==
    IF DecodeThrows(c.baseDirectory) THEN {}
    ELSE {getKubescapePath(c.baseDirectory, platform).baseDir}
         \cup (IF IsSome(c.frameworksDirectory)
                  /\ ~DecodeThrows(expand(resolve(Val(c.frameworksDirectory))))
               THEN {decodeURIComponent(expand(resolve(Val(c.frameworksDirectory))))}
               ELSE {})

\* the tool saved framework n under dir
Saved(files, dir, n) ==
    [files EXCEPT ![dir] = {f \in @ : f.fname /= ToolFile(n)}
                             \cup {[fname |-> ToolFile(n), bundle |-> TRUE]}]

RECURSIVE SavedAll(_, _, _)
SavedAll(files, dir, names) ==
    IF Len(names) = 0 THEN files
    ELSE SavedAll(Saved(files, dir, Head(names)), dir, Tail(names))

----------------------------------------------------------------------------
\* setup, phase 5 (framework provisioning), and installFrameworks

\* getInstalledFrameworks up to its readdir
CallReaddir(c) == [call EXCEPT ![c].pc = "readdir", ![c].log = Append(@, <<"readdir">>)]

\* the catalog is reset and the framework directory chosen
Phase5(c) ==
    /\ call[c].pc = "phase5"
    /\ Turn(c)
    /\ frameworks' = Some(<<>>)
    /\ LET raw == cfg.frameworksDirectory
       IN  IF IsSome(raw) /\ Len(Val(raw)) > 0
           THEN IF DecodeThrows(expand(resolve(Val(raw))))
                THEN /\ call' = Settle(c, "rejected")
                     /\ UNCHANGED frameworkDir
                ELSE /\ frameworkDir' = Some(decodeURIComponent(expand(resolve(Val(raw)))))
                     /\ call' = [call EXCEPT ![c].pc = "fwMkdir", ![c].log = Append(@, <<"mkdir">>)]
           ELSE IF IsSome(frameworkDir) /\ Len(Val(frameworkDir)) > 0
                THEN /\ call' = [call EXCEPT ![c].pc = "fwMkdir", ![c].log = Append(@, <<"mkdir">>)]
                     /\ UNCHANGED frameworkDir
                ELSE /\ frameworkDir' = Some(Val(kpath).baseDir)
                     /\ call' = CallReaddir(c)
    /\ UNCHANGED <<envVars, disk, fwFiles, unlinkPending, tokAborted, unhandled,
                   isInitialized, isInstalled, kpath, versionInfo>>

\* mkdir of the framework directory settled; a failure falls back to the
\* kubescape directory
FwMkdirDone(c, ok) ==
    /\ call[c].pc = "fwMkdir"
    /\ Turn(c)
    /\ IF ok
       THEN /\ call' = [call EXCEPT ![c].pc = "fwAccess", ![c].log = Append(@, <<"access">>)]
            /\ UNCHANGED frameworkDir
       ELSE /\ frameworkDir' = Some(Val(kpath).baseDir)
            /\ call' = CallReaddir(c)
    /\ UNCHANGED <<envVars, disk, fwFiles, unlinkPending, tokAborted, unhandled,
                   isInitialized, isInstalled, kpath, versionInfo, frameworks>>

\* access of the framework directory settled
FwAccessDone(c, ok) ==
    /\ call[c].pc = "fwAccess"
    /\ Turn(c)
    /\ frameworkDir' = IF ok THEN frameworkDir ELSE Some(Val(kpath).baseDir)
    /\ call' = CallReaddir(c)
    /\ UNCHANGED <<envVars, disk, fwFiles, unlinkPending, tokAborted, unhandled,
                   isInitialized, isInstalled, kpath, versionInfo, frameworks>>

\* getInstalledFrameworks settled and its result merged into the catalog
ReaddirDone(c, ok) ==
    /\ call[c].pc = "readdir"
    /\ Turn(c)
    /\ IF ok
       THEN \E files \in Listings(fwFiles[Val(frameworkDir)]) :
                /\ frameworks' = appendToFrameworks(frameworks,
                                      getInstalledFrameworks(Val(frameworkDir), files))
                /\ call' = [call EXCEPT ![c].pc = "required", ![c].listed = files]
       ELSE /\ call' = Settle(c, "rejected")
            /\ UNCHANGED frameworks
    /\ UNCHANGED <<envVars, disk, fwFiles, unlinkPending, tokAborted, unhandled,
                   isInitialized, isInstalled, kpath, frameworkDir, versionInfo>>

\* a loop that marks every cataloged framework (sensitivity of C10)
MarkEvery(cat, names) ==
    IF IsSome(cat)
    THEN Some([i \in 1..Len(Val(cat)) |-> [Val(cat)[i] EXCEPT !.isInstalled = TRUE]])
    ELSE cat

\* installFrameworks: the loop over the requested names
MarkInstalled(cat, names) ==
    IF IsSome(cat)
    THEN Some([i \in 1..Len(Val(cat)) |->
                  IF Contains(names, Val(cat)[i].name)
                  THEN [Val(cat)[i] EXCEPT !.isInstalled = TRUE]
                  ELSE Val(cat)[i]])
    ELSE cat

\* an installFrameworks that finds nothing to download (sensitivity of C17)
NothingToDownload(cat, names) == <<>>

frameworksNeedsDownload(cat, names) ==
    SelectSeq(names, LAMBDA n : ~(IsSome(cat) /\ HasKey(Val(cat), n)))

\* downloadMissingFrameworks: one subprocess per name, all started at once
StartDownloads(cl, c, names) ==
    [cl EXCEPT ![c].pc = "fwDownload",
               ![c].fw = [i \in 1..Len(names) |->
                             [name |-> names[i], st |-> "pending",
                              dir |-> Val(frameworkDir), res |-> None]],
               ![c].log = @ \o [i \in 1..Len(names) |->
                                   <<"exec", "download framework", names[i]>>]]

\* installFrameworks(frameworks, ui) from its entry to its first await, as
\* the next value of call (done: when nothing is to download); the names
\* already cataloged are marked by MarkInstalled.  Building the command
\* reads the path and frameworkDirectory accessors, which raise when unset.
installFrameworks(cl, c, names, done) ==
    LET need == frameworksNeedsDownload(frameworks, names)
    IN  IF Len(need) = 0 THEN done
        ELSE IF ~IsSome(kpath) \/ ~IsSome(frameworkDir)
        THEN [cl EXCEPT ![c].pc = "settled", ![c].result = "rejected"]
        ELSE StartDownloads(cl, c, need)

\* the required frameworks: a selective download of the missing ones, or
\* the bulk download
Required(c) ==
    /\ call[c].pc = "required"
    /\ Turn(c)
    /\ LET req == cfg.requiredFrameworks
       IN  IF IsSome(req) /\ ~Contains(Val(req), "all")
           THEN LET missing == SelectSeq(Val(req), LAMBDA n : ~HasKey(Val(frameworks), n))
                IN  IF Len(missing) > 0
                    THEN /\ call' = installFrameworks(call, c, missing,
                                                       [call EXCEPT ![c].pc = "select"])
                         /\ frameworks' = MarkInstalled(frameworks, missing)
                    ELSE /\ call' = [call EXCEPT ![c].pc = "select"]
                         /\ UNCHANGED frameworks
           ELSE /\ call' = [call EXCEPT ![c].pc = "dlAll",
                                        ![c].log = Append(@, <<"exec", "download artifacts">>)]
                /\ UNCHANGED frameworks
    /\ UNCHANGED <<envVars, disk, fwFiles, unlinkPending, tokAborted, unhandled,
                   isInitialized, isInstalled, kpath, frameworkDir, versionInfo>>

\* the lists installFrameworks is called with by the user
ApiFrameworkLists == {<<"mitre", "nsa">>}

\* installFrameworks(frameworks, ui) called by the user of the API
InstallFrameworksStart(c, names) ==
    /\ Sequential(c)
    /\ LET begun == Begin(c, [IdleCall EXCEPT !.kind = "installFrameworks",
                                              !.result = "pending",
                                              !.asked = names])
       IN  call' = installFrameworks(begun, c, names,
                                     [begun EXCEPT ![c].pc = "settled", ![c].result = "resolved"])
    /\ frameworks' = MarkInstalled(frameworks, names)
    /\ UNCHANGED <<envVars, disk, fwFiles, unlinkPending, tokAborted, unhandled,
                   isInitialized, isInstalled, kpath, frameworkDir, versionInfo>>

\* the callback of one download subprocess: reject on error, then (in
\* either case) parse the output by the protocol of the detected version;
\* Promise.all rejects with the first rejection and resolves when every
\* promise resolved, and installFrameworks then merges the results
FwExecDone(c, i, err, parsable) ==
    /\ i \in 1..Len(call[c].fw)
    /\ call[c].fw[i].st = "pending"
    /\ Turn(c)
    /\ LET e == call[c].fw[i]
           threw == \/ ~IsSome(versionInfo)
                    \/ ~ValidVersion(Val(versionInfo).version)
                    \/ ~parsable
           st == IF err THEN "rejected" ELSE IF threw THEN "stuck" ELSE "resolved"
           fw2 == [call[c].fw EXCEPT
                      ![i].st = st,
                      ![i].res = IF st = "resolved"
                                 THEN Some(DownloadResult(e.name, e.dir, Val(versionInfo).version))
                                 ELSE None]
           waiting == call[c].pc = "fwDownload"
       IN  /\ unhandled' = (unhandled \/ threw)
           /\ fwFiles' = IF err THEN fwFiles ELSE Saved(fwFiles, e.dir, e.name)
           /\ IF waiting /\ \E j \in 1..Len(fw2) : fw2[j].st = "rejected"
              THEN /\ call' = [Settle(c, "rejected") EXCEPT ![c].fw = fw2]
                   /\ UNCHANGED frameworks
              ELSE IF waiting /\ \A j \in 1..Len(fw2) : fw2[j].st = "resolved"
              THEN /\ frameworks' = appendToFrameworks(frameworks,
                                        [j \in 1..Len(fw2) |-> Val(fw2[j].res)])
                   /\ call' = IF call[c].kind = "setup"
                              THEN [call EXCEPT ![c].pc = "select", ![c].fw = fw2]
                              ELSE [Settle(c, "resolved") EXCEPT ![c].fw = fw2]
              ELSE /\ call' = [call EXCEPT ![c].fw = fw2]
                   /\ UNCHANGED frameworks
    /\ UNCHANGED <<envVars, disk, unlinkPending, tokAborted,
                   isInitialized, isInstalled, kpath, frameworkDir, versionInfo>>

\* what the bulk download subprocess can end with: a subprocess error, a
\* descriptor for every framework, no recognizable descriptor, or a
\* framework descriptor the parser faults on
BulkOutcomes == {"err", "full", "empty", "badline"}

\* the callback of "download artifacts"
DlAllDone(c, o) ==
    /\ call[c].pc = "dlAll"
    /\ Turn(c)
    /\ LET dir == Val(frameworkDir)
           version == Val(versionInfo).version
       IN  IF o = "err"
           THEN \* throw new Error(...) inside the callback
                /\ call' = [Hang(c) EXCEPT ![c].log = Append(@, <<"throw", "download artifacts">>)]
                /\ unhandled' = TRUE
                /\ UNCHANGED <<fwFiles, frameworks>>
           ELSE /\ fwFiles' = SavedAll(fwFiles, dir, ToolCatalog)
                /\ IF ~ValidVersion(version) \/ o = "badline"
                   THEN /\ call' = Hang(c)
                        /\ unhandled' = TRUE
                        /\ UNCHANGED frameworks
                   ELSE /\ frameworks' = appendToFrameworks(frameworks,
                                IF o = "empty" THEN <<>>
                                ELSE [i \in 1..Len(ToolCatalog) |->
                                         DownloadResult(ToolCatalog[i], dir, version)])
                        /\ call' = [call EXCEPT ![c].pc = "select"]
                        /\ UNCHANGED unhandled
    /\ UNCHANGED <<envVars, disk, unlinkPending, tokAborted,
                   isInitialized, isInstalled, kpath, frameworkDir, versionInfo>>

\* the frameworks to scan with are marked, and setup is done
Select(c) ==
    /\ call[c].pc = "select"
    /\ Turn(c)
    /\ LET cat == Val(frameworks)
           scan == cfg.scanFrameworks
           scanFrameworks == IF ~IsSome(scan) \/ Contains(Val(scan), "all")
                             THEN Keys(cat) ELSE Val(scan)
           bad == {i \in 1..Len(scanFrameworks) : ~HasKey(cat, scanFrameworks[i])}
       IN  IF bad = {}
           THEN /\ frameworks' = MarkInstalled(frameworks, scanFrameworks)
                /\ isInitialized' = TRUE
                /\ call' = Settle(c, "true")
           ELSE LET k == CHOOSE i \in bad : \A j \in bad : i <= j
                IN  /\ frameworks' = MarkInstalled(frameworks, SubSeq(scanFrameworks, 1, k - 1))
                    /\ call' = Settle(c, "rejected")
                    /\ UNCHANGED isInitialized
    /\ UNCHANGED <<envVars, disk, fwFiles, unlinkPending, tokAborted, unhandled,
                   isInstalled, kpath, frameworkDir, versionInfo>>

----------------------------------------------------------------------------
\* The state accessors, as the outcome of one read in the current state

Return(v) == <<"return", v>>

Throw(e) == <<"throw", e>>

\* reading a property of undefined
TYPE_ERROR == "TypeError"

get_path ==
    IF ~IsSome(kpath) THEN Throw(ERROR_KUBESCAPE_NOT_INSTALLED)
    ELSE Return(Val(kpath).fullPath)

\* this._path.baseDir is read without a test of this._path
get_directory ==
    IF ~IsSome(kpath) THEN Throw(TYPE_ERROR)
    ELSE IF Len(Val(kpath).baseDir) = 0 THEN Throw(ERROR_KUBESCAPE_NOT_INSTALLED)
    ELSE Return(Val(kpath).baseDir)

get_version ==
    IF ~IsSome(versionInfo) THEN Throw(ERROR_KUBESCAPE_NOT_INSTALLED)
    ELSE Return(Val(versionInfo).version)

get_isLatestVersion ==
    IF ~IsSome(versionInfo) THEN Throw(ERROR_KUBESCAPE_NOT_INSTALLED)
    ELSE Return(Val(versionInfo).isLatest)

get_frameworkDirectory ==
    IF ~IsSome(frameworkDir) \/ Len(Val(frameworkDir)) = 0
    THEN Throw(ERROR_KUBESCAPE_NOT_INSTALLED)
    ELSE Return(Val(frameworkDir))

get_frameworksNames == Return(frameworksNames)

get_frameworks == Return(IF IsSome(frameworks) THEN Val(frameworks) ELSE <<>>)

----------------------------------------------------------------------------
\* Control metadata and report enrichment

\* the controls collection of the bundle files of the model: two bundles
\* define C-0001, with different texts; one control carries an id field
\* beside its controlID
Controls(fname) ==
    CASE fname \in {"nsa.json", "NSA.json"} ->
             <<[id |-> None, controlID |-> "C-0001",
                description |-> Some("d"), remediation |-> Some("r")]>>
      [] fname = "mitre.json" ->
             <<[id |-> None, controlID |-> "C-0001",
                description |-> Some("e"), remediation |-> None],
               [id |-> Some("T1"), controlID |-> "C-0003",
                description |-> Some("f"), remediation |-> Some("s")]>>
      [] OTHER -> <<>>

\* control?.id ?? control.controlID
ControlKey(control) == IF IsSome(control.id) THEN Val(control.id) ELSE control.controlID

\* the forEach over obj['controls']: a control is set when its key is new
RECURSIVE IndexControls(_, _)
IndexControls(map, controls) ==
    IF Len(controls) = 0 THEN map
    ELSE LET k == ControlKey(Head(controls))
         IN  IndexControls(IF k \in DOMAIN map THEN map
                           ELSE [j \in DOMAIN map \cup {k} |->
                                    IF j = k THEN Head(controls) ELSE map[j]],
                           Tail(controls))

\* the files.forEach of getControlsMap over the listing of the directory
RECURSIVE IndexFiles(_, _, _)
IndexFiles(map, dir, files) ==
    IF Len(files) = 0 THEN map
    ELSE IndexFiles(IF EndsWithJson(Head(files).fname) /\ ReadsBundle(dir, Head(files))
                    THEN IndexControls(map, Controls(Head(files).fname))
                    ELSE map,
                    dir, Tail(files))

\* getControlsMap: identifier -> control, for the listing readdir gave
getControlsMap(dir, files) == IndexFiles(<<>>, dir, files)

\* an enrichment that attaches nothing (sensitivity of C23)
NoEnrichment(report, controlsMap) == report

\* an enrichment that also clears the texts of the entries it does not find
\* (sensitivity of C29)
EnrichmentClearsOthers(report, controlsMap) ==
    [report EXCEPT !.controls =
        [k \in DOMAIN report.controls |->
            IF k \in DOMAIN controlsMap
            THEN [report.controls[k] EXCEPT !.description = controlsMap[k].description,
                                            !.remediation = controlsMap[k].remediation]
            ELSE [report.controls[k] EXCEPT !.description = None, !.remediation = None]]]

\* appendControlsInformationToV2Report: the entries of
\* report.summaryDetails.controls found in the map get its description and
\* remediation (undefined when the control has none)
appendControlsInformationToV2Report(report, controlsMap) ==
    [report EXCEPT !.controls =
        [k \in DOMAIN report.controls |->
            IF k \in DOMAIN controlsMap
            THEN [report.controls[k] EXCEPT !.description = controlsMap[k].description,
                                            !.remediation = controlsMap[k].remediation]
            ELSE report.controls[k]]]

\* the file a catalog entry's location names: <<directory, file name>>
FileAt(location) == <<SubSeq(location, 1, Len(location) - 1), location[Len(location)]>>

\* the for loop of frameworkControlsData over the controls of one bundle:
\* result[c.controlID] = c
RECURSIVE AssignControls(_, _)
AssignControls(result, controls) ==
    IF Len(controls) = 0 THEN result
    ELSE AssignControls([j \in DOMAIN result \cup {Head(controls).controlID} |->
                            IF j = Head(controls).controlID THEN Head(controls)
                            ELSE result[j]],
                        Tail(controls))

\* the for loop of frameworkControlsData over this.frameworks
RECURSIVE ControlsData(_, _)
ControlsData(result, entries) ==
    IF Len(entries) = 0 THEN result
    ELSE ControlsData(AssignControls(result, Controls(FileAt(Head(entries).location)[2])),
                      Tail(entries))

\* readFileSync(decodeURIComponent(f.location)) finds the file
Readable(location) ==
    /\ ~DecodeThrows(location)
    /\ FileAt(decodeURIComponent(location))[1] \in DOMAIN fwFiles
    /\ \E g \in fwFiles[FileAt(decodeURIComponent(location))[1]] :
           g.fname = FileAt(location)[2]

\* the frameworkControlsData accessor
get_frameworkControlsData ==
    LET entries == get_frameworks[2]
    IN  IF \E i \in 1..Len(entries) : ~Readable(entries[i].location)
        THEN Throw("ENOENT")
        ELSE Return(ControlsData(<<>>, entries))

\* the control identifiers a report can hold
ControlIds == {"C-0001", "C-0003"}

\* the reports the scanner writes: a summary entry for some identifiers,
\* without texts or with texts of its own, and the rest of the report
Reports ==
    {[controls |-> [k \in S |-> [status |-> "failed", description |-> t, remediation |-> t]],
      rest     |-> "results"] : S \in SUBSET ControlIds, t \in {None, Some("own")}}

----------------------------------------------------------------------------
\* scanYaml and scanCluster

ScanKinds == {"scanYaml", "scanCluster"}

\* what the scanner leaves as result file: a v2 report, another JSON value
\* (no summaryDetails), a JSON value that is falsy (null), text that is no
\* JSON, or nothing
ScanOutcomes == {"report", "other", "falsy", "garbage", "nofile"}

\* the finally of withTempDir: rm is started and not awaited
RmStarted(cl, c) == [cl EXCEPT ![c].tmp = "removing", ![c].log = Append(@, <<"rm">>)]

\* a scan that begins by dropping the catalog (sensitivity of C35)
ScanStartResetting(c, kind) ==
    /\ Sequential(c)
    /\ call' = Begin(c, [IdleCall EXCEPT !.kind = kind, !.result = "pending",
                                         !.pc = "mkdtemp", !.log = <<<<"mkdtemp">>>>])
    /\ frameworks' = None
    /\ UNCHANGED <<envVars, disk, fwFiles, unlinkPending, tokAborted, unhandled,
                   isInitialized, isInstalled, kpath, frameworkDir, versionInfo>>

\* scanYaml / scanCluster up to the first await of withTempDir
ScanStart(c, kind) ==
    /\ Sequential(c)
    /\ call' = Begin(c, [IdleCall EXCEPT !.kind = kind, !.result = "pending",
                                         !.pc = "mkdtemp", !.log = <<<<"mkdtemp">>>>])
    /\ UNCHANGED <<envVars, disk, fwFiles, unlinkPending, tokAborted, unhandled, apiVars>>

\* realpath and mkdtemp settled; the callback of withTempFile builds the
\* command (reading frameworkDirectory, frameworksNames and path) and
\* starts the scanner
MkdtempDone(c, ok) ==
    /\ call[c].pc = "mkdtemp"
    /\ Turn(c)
    /\ call' = IF ~ok THEN Settle(c, "rejected")
               ELSE IF get_frameworkDirectory[1] = "throw" \/ get_path[1] = "throw"
               THEN RmStarted([Settle(c, "rejected") EXCEPT ![c].tmp = "present"], c)
               ELSE [call EXCEPT ![c].pc = "scan", ![c].tmp = "present",
                                 ![c].log = Append(@, <<"exec", "scan">>)]
    /\ UNCHANGED <<envVars, disk, fwFiles, unlinkPending, tokAborted, unhandled, apiVars>>

\* the callback of the scan subprocess, up to its await of
\* appendControlsInformationToV2Report: an error is logged and the result
\* file is read all the same; readFileSync and JSON.parse throw inside the
\* callback
ScanExecDone(c, err, o) ==
    /\ call[c].pc = "scan"
    /\ Turn(c)
    /\ LET logged == IF err THEN [call EXCEPT ![c].log = Append(@, <<"ui.error", "stderr">>)]
                     ELSE call
       IN  IF o \in {"nofile", "garbage"}
           THEN /\ call' = [logged EXCEPT ![c].pc = "hung", ![c].report = o]
                /\ unhandled' = TRUE
           ELSE IF o = "falsy"
           THEN /\ call' = RmStarted([logged EXCEPT
                                ![c].pc = "settled", ![c].result = "empty", ![c].report = o,
                                ![c].log = Append(@, <<"ui.error", "not valid response">>)], c)
                /\ UNCHANGED unhandled
           ELSE /\ \E rep \in IF o = "report" THEN {Some(r) : r \in Reports} ELSE {None} :
                      call' = [logged EXCEPT ![c].pc = "enrich", ![c].report = o,
                                             ![c].scanned = rep,
                                             ![c].log = Append(@, <<"readdir">>)]
                /\ UNCHANGED unhandled
    /\ UNCHANGED <<envVars, disk, fwFiles, unlinkPending, tokAborted, apiVars>>

\* the readdir of getControlsMap settled; the controls of the report are
\* then enriched (report.summaryDetails.controls) and the scan resolves
EnrichDone(c, ok) ==
    /\ call[c].pc = "enrich"
    /\ Turn(c)
    /\ IF ok /\ call[c].report = "report"
       THEN /\ \E files \in Listings(fwFiles[Val(frameworkDir)]) :
                  call' = RmStarted([Settle(c, "report") EXCEPT
                              ![c].listed = files,
                              ![c].value = Some(appendControlsInformationToV2Report(
                                               Val(call[c].scanned),
                                               getControlsMap(Val(frameworkDir), files)))], c)
            /\ UNCHANGED unhandled
       ELSE /\ call' = Hang(c)
            /\ unhandled' = TRUE
    /\ UNCHANGED <<envVars, disk, fwFiles, unlinkPending, tokAborted, apiVars>>

\* the rm of a temporary directory completes
RmDone(c) ==
    /\ call[c].tmp = "removing"
    /\ call' = [call EXCEPT ![c].tmp = "removed"]
    /\ UNCHANGED <<envVars, disk, fwFiles, unlinkPending, tokAborted, unhandled, apiVars>>

----------------------------------------------------------------------------
\* The inputs

\* (os.platform(), os.arch()) of the host
Hosts == {<<"linux", "x64">>, <<"win32", "arm64">>}

\* base directory strings: plain, with an environment token, with an
\* encoded percent sign (once and twice), and malformed
BaseDirs == {<<"tmp">>, <<"$V">>, <<"tmp", "%25">>, <<"tmp", "%2525">>, <<"tmp", "%">>}

Versions == VERS \cup {TXT_LATEST}

\* the configuration of the repository's tests with every version, and
\* with every base directory for the test's version
InstallConfigs ==
    {k \in [version             : Versions,
            baseDirectory       : BaseDirs,
            frameworksDirectory : {Some(<<"fw">>)},
            requiredFrameworks  : {Some(<<"nsa">>)},
            scanFrameworks      : {Some(<<"nsa">>)}] :
        k.version = "v2.0.144" \/ k.baseDirectory = <<"tmp">>}

\* the (requiredFrameworks, scanFrameworks) options: absent, "all", the
\* test's, two names in another order, a subset, an empty scan list, an
\* upper-case name, a scan name that is not required, and an upper-case
\* required name scanned for in lower case
FrameworkOptions ==
    {<<None, None>>,
     <<Some(<<"all">>), Some(<<"all">>)>>,
     <<Some(<<"nsa">>), Some(<<"nsa">>)>>,
     <<Some(<<"nsa", "mitre">>), Some(<<"mitre", "nsa">>)>>,
     <<Some(<<"nsa", "mitre">>), Some(<<"nsa">>)>>,
     <<Some(<<"nsa">>), Some(<<>>)>>,
     <<Some(<<"NSA">>), Some(<<"NSA">>)>>,
     <<Some(<<"nsa">>), Some(<<"mitre">>)>>,
     <<Some(<<"NSA">>), Some(<<"nsa">>)>>}

\* the framework options for a plain base directory: every option with the
\* test's version and a framework directory, the absent and the test's
\* options also with the other version and without a framework directory
FrameworkConfigs ==
    {k \in [version             : VERS,
            baseDirectory       : {<<"tmp">>},
            frameworksDirectory : {None, Some(<<"fw">>)},
            requiredFrameworks  : {o[1] : o \in FrameworkOptions},
            scanFrameworks      : {o[2] : o \in FrameworkOptions}] :
        /\ <<k.requiredFrameworks, k.scanFrameworks>> \in FrameworkOptions
        /\ \/ k.version = "v2.0.144" /\ IsSome(k.frameworksDirectory)
           \/ /\ <<k.requiredFrameworks, k.scanFrameworks>>
                     \in {<<None, None>>, <<Some(<<"nsa">>), Some(<<"nsa">>)>>}
              /\ k.version = "v2.0.144" \/ IsSome(k.frameworksDirectory)}

\* what the framework directory holds at the start
InitialFiles ==
    {{},
     {[fname |-> "nsa.json", bundle |-> TRUE]},
     {[fname |-> "NSA.json", bundle |-> TRUE], [fname |-> "mitre.json", bundle |-> TRUE]},
     {[fname |-> "bad.json", bundle |-> FALSE], [fname |-> "notes.txt", bundle |-> TRUE]}}

InitApi ==
    /\ isInitialized = FALSE
    /\ isInstalled = FALSE
    /\ kpath = None
    /\ frameworkDir = None
    /\ versionInfo = None
    /\ frameworks = None
    /\ call = [c \in Calls |-> IdleCall]
    /\ unlinkPending = {}
    /\ tokAborted = FALSE
    /\ unhandled = FALSE

\* every installation question, with the test's framework options; the
\* framework directory is empty, or holds the test's framework beside a
\* binary that prints no version tag
InitInstall ==
    /\ \E h \in Hosts : os = h[1] /\ arch = h[2]
    /\ cfg \in InstallConfigs
    /\ os = "win32" => cfg.baseDirectory = <<"tmp">>
    /\ \E b \in {"absent", "nover"} \cup VERS :
          /\ disk = [l \in Locations(cfg.baseDirectory, os) |->
                        IF l = getKubescapePath(cfg.baseDirectory, os).fullPath THEN b ELSE "absent"]
          /\ \E fs \in IF b = "nover" /\ cfg.baseDirectory = <<"$V">>
                        THEN {{}, {[fname |-> "nsa.json", bundle |-> TRUE]}}
                        ELSE {{}} :
                 fwFiles = [d \in FwDirs(cfg, os) |->
                               IF d = getKubescapePath(cfg.baseDirectory, os).baseDir
                               THEN {} ELSE fs]
    /\ InitApi

\* every framework question, on one platform
InitFrameworks ==
    /\ os = "linux"
    /\ arch = "x64"
    /\ cfg \in FrameworkConfigs
    /\ disk = [l \in Locations(cfg.baseDirectory, os) |-> cfg.version]
    /\ \E fs \in InitialFiles :
          fwFiles = [d \in FwDirs(cfg, os) |->
                        IF IsSome(cfg.frameworksDirectory)
                           /\ d = getKubescapePath(cfg.baseDirectory, os).baseDir
                        THEN {} ELSE fs]
    /\ InitApi

Init == InitInstall \/ InitFrameworks

\* a pending unlink completes
Unlinks == \E loc \in unlinkPending : UnlinkDone(loc)

\* the steps of setup's phases 1-4
NextSetup ==
    \/ \E c \in Calls, tok \in TokChoices : SetupStart(c, tok)
    \/ \E c \in Calls, ok \in BOOLEAN : ProbeDone(c, ok)
    \/ \E c \in Calls, ok \in BOOLEAN : VersionDone(c, ok)
    \/ \E c \in Calls, r \in RegistryOutcomes : VerLatestDone(c, r)
    \/ \E c \in Calls : Reconcile(c)
    \/ \E c \in Calls, r \in RegistryOutcomes : LatestTagDone(c, r)
    \/ \E c \in Calls : Phase4(c)

\* the steps of install and downloadFile
NextDownload ==
    \/ \E c \in Calls, tok \in {"none", "held"} : InstallStart(c, tok)
    \/ \E c \in Calls : InstallBegin(c)
    \/ \E c \in Calls, r \in RegistryOutcomes : LatestUrlDone(c, r)
    \/ \E c \in Calls : DownloadBegin(c)
    \/ \E c \in Calls, ok \in BOOLEAN : MkdirDone(c, ok)
    \/ \E c \in Calls, o \in FetchOutcomes : FetchDone(c, o)
    \/ \E c \in Calls, ok \in BOOLEAN : PipelineDone(c, ok)
    \/ \E c \in Calls, ok \in BOOLEAN : ChmodDone(c, ok)
    \/ Unlinks
    \/ Cancel
    \/ \E c \in Calls : DownloadReturn(c)

\* the steps of the framework phase and of installFrameworks
NextFrameworks ==
    \/ \E c \in Calls : Phase5(c)
    \/ \E c \in Calls, ok \in BOOLEAN : FwMkdirDone(c, ok)
    \/ \E c \in Calls, ok \in BOOLEAN : FwAccessDone(c, ok)
    \/ \E c \in Calls, ok \in BOOLEAN : ReaddirDone(c, ok)
    \/ \E c \in Calls : Required(c)
    \/ \E c \in Calls, names \in ApiFrameworkLists : InstallFrameworksStart(c, names)
    \/ \E c \in Calls, i \in 1..2, err \in BOOLEAN, parsable \in BOOLEAN :
          FwExecDone(c, i, err, parsable)
    \/ \E c \in Calls, o \in BulkOutcomes : DlAllDone(c, o)
    \/ \E c \in Calls : Select(c)

Next == NextSetup \/ NextDownload \/ NextFrameworks

Spec == Init /\ [][Next]_vars

\* install called by the user, alone; the file-system work fs.unlink hands
\* to the thread pool is completed by it
FairDownload == InitInstall /\ [][NextDownload]_vars /\ WF_vars(Unlinks)

\* what the subprocesses, the network and the file system complete: every
\* step of a call but its start and the user's cancellation
Steps ==
    \/ \E c \in Calls, ok \in BOOLEAN : ProbeDone(c, ok)
    \/ \E c \in Calls, ok \in BOOLEAN : VersionDone(c, ok)
    \/ \E c \in Calls, r \in RegistryOutcomes : VerLatestDone(c, r)
    \/ \E c \in Calls : Reconcile(c)
    \/ \E c \in Calls, r \in RegistryOutcomes : LatestTagDone(c, r)
    \/ \E c \in Calls : Phase4(c)
    \/ \E c \in Calls : InstallBegin(c)
    \/ \E c \in Calls, r \in RegistryOutcomes : LatestUrlDone(c, r)
    \/ \E c \in Calls : DownloadBegin(c)
    \/ \E c \in Calls, ok \in BOOLEAN : MkdirDone(c, ok)
    \/ \E c \in Calls, o \in FetchOutcomes : FetchDone(c, o)
    \/ \E c \in Calls, ok \in BOOLEAN : PipelineDone(c, ok)
    \/ \E c \in Calls, ok \in BOOLEAN : ChmodDone(c, ok)
    \/ Unlinks
    \/ \E c \in Calls : DownloadReturn(c)
    \/ \E c \in Calls : Phase5(c)
    \/ \E c \in Calls, ok \in BOOLEAN : FwMkdirDone(c, ok)
    \/ \E c \in Calls, ok \in BOOLEAN : FwAccessDone(c, ok)
    \/ \E c \in Calls, ok \in BOOLEAN : ReaddirDone(c, ok)
    \/ \E c \in Calls : Required(c)
    \/ \E c \in Calls, i \in 1..2, err \in BOOLEAN, parsable \in BOOLEAN :
          FwExecDone(c, i, err, parsable)
    \/ \E c \in Calls, o \in BulkOutcomes : DlAllDone(c, o)
    \/ \E c \in Calls : Select(c)

\* one setup on a host with a plain base directory
InitFairSetup ==
    /\ Init
    /\ os = "linux"
    /\ cfg.baseDirectory = <<"tmp">>

\* the steps of one setup call
NextFairSetup ==
    \/ \E tok \in TokChoices : SetupStart(1, tok)
    \/ Steps
    \/ Cancel

\* setup where every subprocess, network call and file-system call
\* completes, with success or failure
FairSetup == InitFairSetup /\ [][NextFairSetup]_vars /\ WF_vars(Steps)

\* the test's configuration on a host with the requested binary and the
\* test's framework on disk
InitScan ==
    /\ InitFrameworks
    /\ cfg.version = "v2.0.144"
    /\ cfg.frameworksDirectory = Some(<<"fw">>)
    /\ cfg.requiredFrameworks = Some(<<"nsa">>)
    /\ cfg.scanFrameworks = Some(<<"nsa">>)
    /\ fwFiles[<<CWD, "fw">>] = {[fname |-> "nsa.json", bundle |-> TRUE]}

\* the test's configuration on a host with the requested binary and a
\* framework directory that holds the test's framework, alone or beside
\* another bundle
InitEnrich ==
    /\ InitFrameworks
    /\ cfg.version = "v2.0.144"
    /\ cfg.frameworksDirectory = Some(<<"fw">>)
    /\ cfg.requiredFrameworks = Some(<<"nsa">>)
    /\ cfg.scanFrameworks = Some(<<"nsa">>)
    /\ \E f \in fwFiles[<<CWD, "fw">>] : f.bundle /\ Lower(Stem(f.fname)) = "nsa"

\* the steps of a scan
ScanSteps ==
    \/ \E c \in Calls, ok \in BOOLEAN : MkdtempDone(c, ok)
    \/ \E c \in Calls, err \in BOOLEAN, o \in ScanOutcomes : ScanExecDone(c, err, o)
    \/ \E c \in Calls, ok \in BOOLEAN : EnrichDone(c, ok)
    \/ \E c \in Calls : RmDone(c)

\* setup without installation or download, and the scans
NextScan ==
    \/ \E c \in Calls, tok \in TokChoices : SetupStart(c, tok)
    \/ \E c \in Calls, ok \in BOOLEAN : ProbeDone(c, ok)
    \/ \E c \in Calls, ok \in BOOLEAN : VersionDone(c, ok)
    \/ \E c \in Calls : Reconcile(c)
    \/ \E c \in Calls : Phase4(c)
    \/ \E c \in Calls : Phase5(c)
    \/ \E c \in Calls, ok \in BOOLEAN : FwMkdirDone(c, ok)
    \/ \E c \in Calls, ok \in BOOLEAN : FwAccessDone(c, ok)
    \/ \E c \in Calls, ok \in BOOLEAN : ReaddirDone(c, ok)
    \/ \E c \in Calls : Required(c)
    \/ \E c \in Calls : Select(c)
    \/ \E c \in Calls, kind \in ScanKinds : ScanStart(c, kind)
    \/ ScanSteps

\* scans before and after setup; every subprocess and file-system call a
\* scan makes completes
FairScan == InitScan /\ [][NextScan]_vars /\ WF_vars(ScanSteps)

\* setup calls that all pass one AbortController, which the user never
\* signals
NextRetry ==
    \/ \E c \in Calls : SetupStart(c, "held")
    \/ Steps

\* setup called again with the same arguments, without cancellation
SpecRetry == InitFairSetup /\ [][NextRetry]_vars

\* the platforms and architectures release assets exist for
SupportedPlatforms == {"linux", "darwin", "win32"}

SupportedArchs == {"x64", "arm64"}

\* install on every supported host, with the test's configuration
InitAssets ==
    /\ os \in SupportedPlatforms
    /\ arch \in SupportedArchs
    /\ cfg \in InstallConfigs
    /\ cfg.baseDirectory = <<"tmp">>
    /\ disk = [l \in Locations(cfg.baseDirectory, os) |-> "absent"]
    /\ fwFiles = [d \in FwDirs(cfg, os) |-> {}]
    /\ InitApi

\* install called by the user on every supported host
SpecAssets == InitAssets /\ [][NextDownload]_vars

\* setup and scans over framework directories with one or two bundles
SpecEnrich == InitEnrich /\ [][NextScan]_vars

\* the test's configuration on a host with no binary or one of another
\* version, and an empty framework directory
InitOverlapping ==
    /\ InitInstall
    /\ os = "linux"
    /\ cfg.baseDirectory = <<"tmp">>
    /\ cfg.version = "v2.0.144"
    /\ disk[getKubescapePath(cfg.baseDirectory, os).fullPath] \in {"absent", "v2.0.150"}

\* the steps of setup calls that overlap
NextOverlapping ==
    \/ \E c \in Calls : SetupStartOverlapping(c, "none")
    \/ \E c \in Calls, ok \in BOOLEAN : ProbeDone(c, ok)
    \/ \E c \in Calls, ok \in BOOLEAN : VersionDone(c, ok)
    \/ \E c \in Calls : Reconcile(c)
    \/ \E c \in Calls : Phase4(c)
    \/ \E c \in Calls : InstallBegin(c)
    \/ \E c \in Calls : DownloadBegin(c)
    \/ \E c \in Calls, ok \in BOOLEAN : MkdirDone(c, ok)
    \/ \E c \in Calls, o \in FetchOutcomes : FetchDone(c, o)
    \/ \E c \in Calls, ok \in BOOLEAN : PipelineDone(c, ok)
    \/ \E c \in Calls, ok \in BOOLEAN : ChmodDone(c, ok)
    \/ Unlinks
    \/ \E c \in Calls : DownloadReturn(c)
    \/ \E c \in Calls : Phase5(c)
    \/ \E c \in Calls, ok \in BOOLEAN : FwMkdirDone(c, ok)
    \/ \E c \in Calls, ok \in BOOLEAN : FwAccessDone(c, ok)
    \/ \E c \in Calls, ok \in BOOLEAN : ReaddirDone(c, ok)
    \/ \E c \in Calls : Required(c)
    \/ \E c \in Calls, i \in 1..2, err \in BOOLEAN, parsable \in BOOLEAN :
          FwExecDone(c, i, err, parsable)
    \/ \E c \in Calls : Select(c)

\* setup called again on the instance while earlier calls are suspended
SpecOverlapping == InitOverlapping /\ [][NextOverlapping]_vars

----------------------------------------------------------------------------
\* The properties

LoggedIn(l, e) == \E i \in 1..Len(l) : l[i] = e

\* the downloadFile calls in a log
DownloadCalls(l) == {i \in 1..Len(l) : l[i][1] = "downloadFile"}

\* the install calls in a log
InstallCalls(l) == {i \in 1..Len(l) : l[i] = <<"install">>}

\* c is a setup call that ran after an earlier setup call returned true
AfterSuccessfulSetup(c) ==
    \E d \in Calls : d < c /\ call[d].kind = "setup" /\ call[d].result = "true"

\* C1: setup is idempotent.  Once a setup call has returned true, a later
\* setup call returns true at once: it issues no network request, no
\* subprocess and no file-system call, and it leaves the path, the version,
\* the framework directory, the catalog, the flags and the disk as they are.
C1_SetupIdempotent ==
    [][\A c \in Calls :
          (call[c].pc = "idle" /\ call'[c].kind = "setup" /\ AfterSuccessfulSetup(c))
          => /\ call'[c].pc = "settled"
             /\ call'[c].result = "true"
             /\ call'[c].log = <<>>
             /\ UNCHANGED <<kpath, versionInfo, frameworkDir, frameworks,
                            isInitialized, isInstalled, disk, fwFiles, unlinkPending>>]_vars

\* a second setup call has returned after a first one returned true
C1_Witness ==
    \E c \in Calls :
        call[c].kind = "setup" /\ call[c].pc = "settled" /\ AfterSuccessfulSetup(c)

\* C2: version reconciliation when the install probe succeeded.  When
\* setup leaves phase 4, needsUpdate is (detected /= requested) for a
\* concrete requested version and (detected /= latest tag of the registry)
\* for the "latest" sentinel; install is called at phase 4 exactly when
\* needsUpdate is true, and nowhere else in setup.
C2_VersionReconciliation ==
    [][\A c \in Calls :
          /\ (call[c].kind = "setup" /\ call[c].probe = "ok" /\ call[c].pc = "phase4"
                 /\ call'[c].pc /= "phase4")
             => /\ call[c].needsUpdate =
                       (IF cfg.version = TXT_LATEST
                        THEN call[c].detected /= call[c].latestTag
                        ELSE call[c].detected /= cfg.version)
                /\ call[c].needsUpdate
                       <=> (call'[c].pc = "install"
                            /\ call'[c].log = Append(call[c].log, <<"install">>))
                /\ ~call[c].needsUpdate
                       => (call'[c].pc = "phase5" /\ call'[c].log = call[c].log)
          /\ (call'[c].kind = "setup" /\ call'[c].probe = "ok")
             => /\ InstallCalls(call'[c].log) /= {} => call'[c].needsUpdate
                /\ Cardinality(InstallCalls(call'[c].log)) <= 1]_vars

\* setup found the binary at a version other than the registry's latest
\* tag, with "latest" requested, and called install
C2_Witness ==
    \E c \in Calls :
        /\ call[c].kind = "setup" /\ call[c].probe = "ok"
        /\ cfg.version = TXT_LATEST
        /\ call[c].latestTag \in VERS /\ call[c].detected \in VERS
        /\ call[c].latestTag /= call[c].detected
        /\ LoggedIn(call[c].log, <<"install">>)

\* C3: scenario A.  When the install probe succeeds and the requested
\* version is the detected one, setup never calls install or downloadFile
\* and issues no download request; it never returns false, and it ends
\* otherwise than by returning true only on a fault of the framework phase.
C3_ScenarioA ==
    \A c \in Calls :
        (call[c].kind = "setup" /\ call[c].probe = "ok" /\ call[c].detected = cfg.version)
        => /\ ~call[c].needsUpdate
           /\ InstallCalls(call[c].log) = {}
           /\ DownloadCalls(call[c].log) = {}
           /\ \A i \in 1..Len(call[c].log) : call[c].log[i][1] /= "http"
           /\ call[c].result \in {"pending", "true", "rejected"}
           /\ call[c].pc \in {"settled", "hung"} /\ call[c].result /= "true"
                 => \E i \in 1..Len(call[c].log) : call[c].log[i] \in {<<"mkdir">>, <<"readdir">>}

\* a setup that found the requested version installed has returned true
C3_Witness ==
    \E c \in Calls :
        /\ call[c].kind = "setup" /\ call[c].probe = "ok"
        /\ call[c].detected = cfg.version
        /\ call[c].pc = "settled" /\ call[c].result = "true"

\* what install resolves as url for the requested version
ResolvedUrls ==
    IF cfg.version = TXT_LATEST
    THEN {<<"downloadFile", r>> \o chooseKubescapeAsset(os, arch) : r \in VERS}
    ELSE {<<"downloadFile", cfg.version>> \o chooseKubescapeAsset(os, arch)}

\* C4: scenario B.  When the install probe fails (whatever the file is),
\* setup goes on to phase 4 instead of failing with the probe's error; it
\* calls install exactly once, downloadFile at most once and only with the
\* url resolved for the requested version and the host's asset (exactly
\* once for a concrete version); after a download that succeeded the
\* isInstalled accessor is true.
C4_ScenarioB ==
    \A c \in Calls :
        (call[c].kind = "setup" /\ call[c].probe = "failed")
        => /\ call[c].needsUpdate
           /\ Cardinality(InstallCalls(call[c].log)) = (IF call[c].pc = "phase4" THEN 0 ELSE 1)
           /\ Cardinality(DownloadCalls(call[c].log)) <= 1
           /\ \A i \in DownloadCalls(call[c].log) : call[c].log[i] \in ResolvedUrls
           /\ (cfg.version /= TXT_LATEST /\ call[c].pc \notin {"phase4", "install", "dlBegin"})
                 => Cardinality(DownloadCalls(call[c].log)) = 1
           /\ (call[c].dlOk /\ call[c].pc /= "dlRet") => isInstalled

\* a setup whose probe failed has downloaded the binary and returned true
C4_Witness ==
    \E c \in Calls :
        /\ call[c].kind = "setup" /\ call[c].probe = "failed"
        /\ call[c].dlOk /\ isInstalled
        /\ Cardinality(DownloadCalls(call[c].log)) = 1
        /\ call[c].pc = "settled" /\ call[c].result = "true"

\* the download of call c failed inside downloadFile, which returned ""
\* to install, and nothing was done after it
DownloadFailedLast(c) ==
    /\ ~call[c].dlOk
    /\ LoggedIn(call[c].log, <<"mkdir">>)
    /\ DownloadCalls(call[c].log) /= {}
    /\ call[c].log[Len(call[c].log)][1] \in {"mkdir", "http", "unlink", "chmod"}

\* C5: when the binary download fails during setup, setup returns false
\* to every caller, with or without a cancellation token, and the instance
\* stays uninitialized and not installed.
C5_DownloadFailureReturnsFalse ==
    [][\A c \in Calls :
          (call[c].kind = "setup" /\ call[c].pc = "dlRet" /\ ~call[c].dlOk
              /\ call'[c].pc /= "dlRet")
          => /\ call'[c].pc = "settled"
             /\ call'[c].result = "false"
             /\ ~isInitialized'
             /\ ~isInstalled']_vars

\* a setup called without a cancellation token ended by raising after its
\* download failed
C5_Witness ==
    \E c \in Calls :
        /\ call[c].kind = "setup" /\ ~call[c].abortTok
        /\ call[c].pc = "settled" /\ call[c].result = "rejected"
        /\ DownloadFailedLast(c)
        /\ ~isInitialized /\ ~isInstalled

\* the positions inside downloadFile
DownloadPcs == {"dlBegin", "mkdir", "fetch", "pipeline", "chmod"}

\* C6: downloadFile never raises.  Every way out of downloadFile is its
\* return, with the empty path on a failure, and with the local path only
\* after the whole body was written and (where it is made) the chmod
\* succeeded.
C6_DownloadFileNeverRaises ==
    [][\A c \in Calls :
          (call[c].pc \in DownloadPcs /\ call'[c].pc \notin DownloadPcs)
          => /\ call'[c].pc = "dlRet"
             /\ call'[c].dlOk
                   => call[c].pc = (IF isWindows(os) THEN "pipeline" ELSE "chmod")]_vars

\* install, called by the user with a malformed directory string, raised
\* out of downloadFile
C6_Witness ==
    \E c \in Calls :
        /\ call[c].kind = "install"
        /\ call[c].pc = "settled" /\ call[c].result = "rejected"
        /\ DownloadCalls(call[c].log) /= {}
        /\ DecodeThrows(Val(call[c].downloadDir))

\* every binary location of the model
BinaryLocations == UNION {Locations(bd, h[1]) : bd \in BaseDirs, h \in Hosts}

\* the stream of call c's download to loc failed and downloadFile returns
StreamFailed(c, loc) ==
    /\ call[c].pc = "dlRet"
    /\ LoggedIn(call[c].log, <<"unlink">>)
    /\ LocalPath(c) = loc

OneOfTwoFailed(c, i) ==
    /\ call[c].pc = "settled"
    /\ Len(call[c].fw) = 2
    /\ call[c].fw[i].st = "resolved"
    /\ \E j \in 1..2 : call[c].fw[j].st = "rejected"

\* C8: scenario D.  After a selective download of two missing frameworks
\* of which one subprocess failed and the other succeeded, the caller has
\* seen a failure and the catalog holds the framework that succeeded.
C8_ScenarioD ==
    \A c \in Calls, i \in 1..2 :
        OneOfTwoFailed(c, i)
        => /\ call[c].result = "rejected"
           /\ IsSome(frameworks)
           /\ HasKey(Val(frameworks), Val(call[c].fw[i].res).name)

\* the caller has seen the failure, and the framework that was downloaded
\* is not in the catalog
C8_Witness ==
    \E c \in Calls, i \in 1..2 :
        /\ OneOfTwoFailed(c, i)
        /\ call[c].result = "rejected"
        /\ IsSome(frameworks)
        /\ ~HasKey(Val(frameworks), Val(call[c].fw[i].res).name)

\* the step resets the catalog: setup's "this._frameworks = {}"
CatalogReset == \E c \in Calls : call[c].pc = "phase5" /\ call'[c].pc /= "phase5"

\* C9: the merge is first-write-wins.  Within one catalog lifetime (from
\* one reset of the catalog to the next), whatever is merged, every entry
\* of the catalog keeps its place, its name and its location, and no name
\* is a key twice.
C9_FirstWriteWins ==
    [][(IsSome(frameworks) /\ ~CatalogReset)
       => /\ IsSome(frameworks')
          /\ Len(Val(frameworks')) >= Len(Val(frameworks))
          /\ \A i \in 1..Len(Val(frameworks)) :
                /\ Val(frameworks')[i].name = Val(frameworks)[i].name
                /\ Val(frameworks')[i].location = Val(frameworks)[i].location
          /\ \A i, j \in 1..Len(Val(frameworks')) :
                Val(frameworks')[i].name = Val(frameworks')[j].name => i = j]_vars

\* a download result for a name the on-disk scan had cataloged at another
\* location was merged, and the entry still has the scan's location
C9_Witness ==
    \E c \in Calls, i \in 1..2 :
        /\ call[c].pc = "select"
        /\ i <= Len(call[c].fw)
        /\ call[c].fw[i].st = "resolved"
        /\ HasKey(Val(frameworks), Val(call[c].fw[i].res).name)
        /\ Entry(Val(frameworks), Val(call[c].fw[i].res).name).location
              /= Val(call[c].fw[i].res).location

\* setup call c ran to the end and returned true, and no call was made since
SetupSucceeded(c) ==
    /\ call[c].kind = "setup"
    /\ call[c].pc = "settled" /\ call[c].result = "true"
    /\ call[c].log /= <<>>
    /\ \A d \in Calls : d > c => call[d].pc = "idle"

Elements(seq) == {seq[i] : i \in 1..Len(seq)}

ExplicitScanList == IsSome(cfg.scanFrameworks) /\ ~Contains(Val(cfg.scanFrameworks), "all")

\* C10: the active set after a successful setup.  With a scan list that
\* is absent or contains "all", every cataloged framework is active; with
\* an explicit list S, the names frameworksNames returns are those of S (as
\* a set: they come in catalog order), and no other framework is active.
C10_ActiveSet ==
    \A c \in Calls :
        SetupSucceeded(c)
        => LET cat == Val(frameworks)
           IN  IF ExplicitScanList
               THEN /\ Elements(frameworksNames) = Elements(Val(cfg.scanFrameworks))
                    /\ \A i \in 1..Len(cat) :
                          cat[i].isInstalled <=> Contains(Val(cfg.scanFrameworks), cat[i].name)
               ELSE \A i \in 1..Len(cat) : cat[i].isInstalled

\* C10 as stated: with an explicit list S, frameworksNames is the list S
C10_ExactList ==
    \A c \in Calls :
        (SetupSucceeded(c) /\ ExplicitScanList) => frameworksNames = Val(cfg.scanFrameworks)

\* a successful setup with an explicit scan list left a cataloged
\* framework inactive
C10_Witness ==
    \E c \in Calls :
        /\ SetupSucceeded(c)
        /\ ExplicitScanList
        /\ frameworksNames /= <<>>
        /\ \E i \in 1..Len(Val(frameworks)) : ~Val(frameworks)[i].isInstalled

\* C11: with an empty scan list, a successful setup marks every cataloged
\* framework active, as it does for "all".
C11_EmptyScanList ==
    \A c \in Calls :
        (SetupSucceeded(c) /\ cfg.scanFrameworks = Some(<<>>))
        => \A i \in 1..Len(Val(frameworks)) : Val(frameworks)[i].isInstalled

\* a setup with an empty scan list returned true with a framework
\* cataloged and none active
C11_Witness ==
    \E c \in Calls :
        /\ SetupSucceeded(c)
        /\ cfg.scanFrameworks = Some(<<>>)
        /\ Len(Val(frameworks)) > 0
        /\ frameworksNames = <<>>

\* the names of the model that hold an upper-case letter
HasUpperCase(n) == n \in {"NSA", "NSA.json"}

\* C12: in every reachable state every key of the catalog is lower-cased and
\* is the name of exactly one entry, whichever source inserted the entry
\* (the scan of the directory, a selective download, the bulk download).
C12_KeysLowerCased ==
    IsSome(frameworks) =>
        LET cat == Val(frameworks)
        IN  \A i \in 1..Len(cat) :
                /\ ~HasUpperCase(Keys(cat)[i])
                /\ Entry(cat, Keys(cat)[i]) = cat[i]
                /\ \A j \in 1..Len(cat) : cat[j].name = cat[i].name => j = i

\* the catalog holds "nsa" read from the file NSA.json, and a download
\* subprocess asked for "NSA" reported the framework as "nsa"
C12_Witness ==
    /\ IsSome(frameworks)
    /\ \E i \in 1..Len(Val(frameworks)) :
          /\ Val(frameworks)[i].name = "nsa"
          /\ Val(frameworks)[i].location[Len(Val(frameworks)[i].location)] = "NSA.json"
    /\ \E c \in Calls : \E k \in 1..Len(call[c].fw) :
          /\ call[c].fw[k].name = "NSA"
          /\ IsSome(call[c].fw[k].res)
          /\ Val(call[c].fw[k].res).name = "nsa"

\* C13: while no setup has succeeded (none called, one running, one returned
\* false) every state accessor raises the "Kubescape is not installed!"
\* error.
C13_AccessorsRaiseNotInstalled ==
    ~isInitialized =>
        \A r \in {get_path, get_directory, get_version, get_isLatestVersion,
                  get_frameworkDirectory, get_frameworksNames, get_frameworks} :
            r = Throw(ERROR_KUBESCAPE_NOT_INSTALLED)

\* a setup returned false, none has succeeded, and the accessors of the
\* path return values while the catalog accessors return empty lists
C13_Witness ==
    /\ ~isInitialized
    /\ \E c \in Calls : call[c].kind = "setup" /\ call[c].result = "false"
    /\ get_path[1] = "return"
    /\ get_directory[1] = "return"
    /\ get_frameworksNames = Return(<<>>)
    /\ get_frameworks = Return(<<>>)

\* the calls that ran the install probe, the binary download, the
\* framework provisioning
Probed == {c \in Calls : LoggedIn(call[c].log, <<"exec", "help">>)}

Downloaded == {c \in Calls : DownloadCalls(call[c].log) /= {}}

Provisioned == {c \in Calls : LoggedIn(call[c].log, <<"readdir">>)}

\* C14: whatever the interleaving of setup calls on the instance, one begun
\* while another is suspended at an await included, the install probe, the
\* binary download and the framework provisioning each run at most once.
C14_InitializedOnce ==
    /\ Cardinality(Probed) <= 1
    /\ Cardinality(Downloaded) <= 1
    /\ Cardinality(Provisioned) <= 1

\* two overlapping setup calls both returned true, and each of them probed,
\* downloaded the binary and provisioned the frameworks
C14_Witness ==
    /\ \A c \in Calls : call[c].kind = "setup" /\ call[c].result = "true"
    /\ Probed = Calls
    /\ Downloaded = Calls
    /\ Provisioned = Calls
    /\ isInitialized

\* C15: after a setup that returned true for a concrete requested version
\* (not "latest"), the version accessor gives that version, whether the
\* binary was found at it or installed by the setup.
C15_VersionIsRequested ==
    \A c \in Calls :
        (SetupSucceeded(c) /\ cfg.version /= TXT_LATEST)
        => get_version = Return(cfg.version)

\* a setup that found a binary of another version, installed the requested
\* one and returned true, still reports the version it found
C15_Witness ==
    \E c \in Calls :
        /\ SetupSucceeded(c)
        /\ cfg.version \in VERS
        /\ call[c].probe = "ok"
        /\ DownloadCalls(call[c].log) /= {}
        /\ get_version[1] = "return"
        /\ get_version[2] \in VERS \ {cfg.version}

\* C16: for a concrete requested version (not "latest") the detected
\* version has isLatest false whatever the version subcommand printed, so
\* isLatestVersion is false after a successful setup.
C16_ConcreteIsNotLatest ==
    /\ cfg.version /= TXT_LATEST => get_isLatestVersion \in {Throw(ERROR_KUBESCAPE_NOT_INSTALLED),
                                                             Return(FALSE)}
    /\ \A c \in Calls :
           (SetupSucceeded(c) /\ cfg.version /= TXT_LATEST)
           => get_isLatestVersion = Return(FALSE)

\* a setup for a concrete version returned true after the version
\* subcommand printed no version tag, and isLatestVersion is true
C16_Witness ==
    \E c \in Calls :
        /\ SetupSucceeded(c)
        /\ cfg.version \in VERS
        /\ get_version = Return(UNKNOWN)
        /\ get_isLatestVersion = Return(TRUE)

\* a setup with an explicit list of required frameworks returned true
RequiredExplicitly(c) ==
    /\ SetupSucceeded(c)
    /\ IsSome(cfg.requiredFrameworks)
    /\ ~Contains(Val(cfg.requiredFrameworks), "all")

InScanList(n) == IsSome(cfg.scanFrameworks) /\ Contains(Val(cfg.scanFrameworks), n)

IsScan(c) == call[c].kind \in ScanKinds

\* C18: a scan never raises to its caller and never hangs; when the scanner
\* leaves no result file, or one that is no valid report, the scan resolves
\* with an empty object and an error is logged through the UI.
C18_ScanDegrades ==
    /\ [](\A c \in Calls : IsScan(c) => call[c].result /= "rejected")
    /\ [](\A c \in Calls :
             (IsScan(c) /\ call[c].report \in ScanOutcomes \ {"report"})
             => /\ call[c].pc = "settled"
                /\ call[c].result = "empty"
                /\ \E i \in 1..Len(call[c].log) : call[c].log[i][1] = "ui.error")
    /\ \A c \in Calls : (IsScan(c) /\ call[c].result = "pending") ~> (call[c].pc = "settled")

\* after a successful setup the scanner exited with no result file: the
\* scan is pending for ever, with a fault no caller can catch
C18_Witness ==
    \E c \in Calls :
        /\ isInitialized
        /\ IsScan(c)
        /\ call[c].report = "nofile"
        /\ call[c].pc = "hung"
        /\ call[c].result = "pending"
        /\ unhandled

\* C19: whatever the outcome of a scan (success, non-zero exit, missing or
\* unparsable result file, enrichment failure), the temporary directory
\* made for its result file is eventually removed.
C19_TempDirRemoved ==
    \A c \in Calls : (call[c].tmp = "present") ~> (call[c].tmp = "removed")

\* a scan whose result file could not be parsed is pending for ever and its
\* temporary directory is still there, no rm started
C19_Witness ==
    \E c \in Calls :
        /\ IsScan(c)
        /\ call[c].pc = "hung"
        /\ call[c].report = "garbage"
        /\ call[c].tmp = "present"
        /\ ~LoggedIn(call[c].log, <<"rm">>)

\* C20: provided every subprocess and network call completes, every setup
\* call eventually settles (true, false or a rejection to its caller), and
\* no failure of the version subcommand, the registry query or a framework
\* download ends in a fault outside the caller's control.
C20_SetupSettles ==
    /\ \A c \in Calls :
           (call[c].kind = "setup" /\ call[c].result = "pending") ~> (call[c].pc = "settled")
    /\ [](~unhandled)

\* the version subcommand failed: setup is pending for ever, with a fault
\* no caller can catch
C20_Witness ==
    \E c \in Calls :
        /\ call[c].kind = "setup"
        /\ call[c].pc = "hung"
        /\ call[c].result = "pending"
        /\ call[c].log[Len(call[c].log)] = <<"throw", "version">>
        /\ unhandled

\* the setup calls whose token is signalled while their request or their
\* response stream is in flight
CancelledInFlight(c) ==
    /\ call[c].kind = "setup"
    /\ Aborted(c)
    /\ call[c].pc \in {"fetch", "pipeline"}

PhaseOf(r) ==
    IF r.kind /= "setup" THEN 0
    ELSE CASE r.pc = "probe" -> 2
           [] r.pc \in {"version", "verLatest"} -> IF r.verRet = "reconcile" THEN 3 ELSE 4
           [] r.pc \in {"reconcile", "latestTag"} -> 3
           [] r.pc \in {"phase4", "install", "latestUrl", "dlBegin", "mkdir", "fetch",
                        "pipeline", "chmod", "dlRet"} -> 4
           [] r.pc \in {"phase5", "fwMkdir", "fwAccess", "readdir", "required",
                        "fwDownload", "dlAll", "select"} -> 5
           [] OTHER -> 0

\* C22: within one setup call the phases run in their order (path, install
\* probe, version reconciliation, conditional install, framework
\* provisioning); a phase begins only when the calls of the phases before it
\* have settled, and a setup that failed or stopped issues nothing more.
C22_PhasesInOrder ==
    /\ [][\A c \in Calls :
             /\ (PhaseOf(call[c]) > 0 /\ PhaseOf(call'[c]) > 0)
                => PhaseOf(call'[c]) >= PhaseOf(call[c])
             /\ (call[c].kind = "setup" /\ call[c].pc \in {"settled", "hung"})
                => call'[c].pc = call[c].pc /\ Len(call'[c].log) <= Len(call[c].log)]_vars
    /\ [](\A c \in Calls :
             /\ PhaseOf(call[c]) >= 3 => call[c].probe /= "none"
             /\ PhaseOf(call[c]) >= 4 =>
                   (call[c].probe = "ok" => call[c].detected /= "none")
             /\ PhaseOf(call[c]) = 5 =>
                   /\ call[c].needsUpdate => (call[c].dlOk /\ ~LoggedIn(call[c].log, <<"unlink">>))
                   /\ IsSome(versionInfo)
             /\ (call[c].kind = "setup" /\ \E i \in 1..Len(call[c].fw) : call[c].fw[i].st = "pending")
                => call[c].pc \in {"fwDownload", "settled", "hung"})

\* a setup that went through the probe, the version query, the download
\* and the framework download, in this order, returned true
C22_Witness ==
    \E c \in Calls :
        /\ SetupSucceeded(c)
        /\ \E i, j, k, l \in 1..Len(call[c].log) :
              /\ i < j /\ j < k /\ k < l
              /\ call[c].log[i] = <<"exec", "help">>
              /\ call[c].log[j] = <<"exec", "version">>
              /\ call[c].log[k][1] = "downloadFile"
              /\ call[c].log[l][1] = "exec" /\ call[c].log[l][2] = "download framework"

\* a scan made after a successful setup resolved with its report
ScanReported(c) ==
    /\ isInitialized
    /\ IsScan(c)
    /\ call[c].result = "report"
    /\ IsSome(call[c].value)

\* the bundle files of the framework directory
BundleFiles == {f \in fwFiles[Val(frameworkDir)] : EndsWithJson(f.fname) /\ f.bundle}

\* where identifier k occurs in a listing: <<file, control>> positions
Occurrences(k, files) ==
    UNION {{<<i, j>> : j \in {j \in 1..Len(Controls(files[i].fname)) :
                                 ControlKey(Controls(files[i].fname)[j]) = k}} :
           i \in {i \in 1..Len(files) : files[i] \in BundleFiles}}

\* the first control with identifier k in a listing
FirstControl(k, files) ==
    LET h == CHOOSE h \in Occurrences(k, files) :
                 \A g \in Occurrences(k, files) :
                     h[1] < g[1] \/ (h[1] = g[1] /\ h[2] <= g[2])
    IN  Controls(files[h[1]].fname)[h[2]]

AssetNames ==
    [p \in SupportedPlatforms |->
        [a \in SupportedArchs |->
            <<IF a = "arm64" THEN "kubescape-arm64" ELSE "kubescape",
              CASE p = "linux" -> "-ubuntu-latest"
                [] p = "darwin" -> "-macos-latest"
                [] p = "win32" -> ".exe">>]]

\* C24: on every supported host the asset downloaded, whatever the call
\* and the release, is the enumerated name of the host's platform and
\* architecture, and two platforms never share a name.
C24_AssetChosen ==
    /\ \A c \in Calls :
           IsSome(call[c].dlUrl) =>
               /\ Tail(Val(call[c].dlUrl)) = AssetNames[os][arch]
               /\ \A p \in SupportedPlatforms \ {os}, a \in SupportedArchs :
                      chooseKubescapeAsset(p, a) /= Tail(Val(call[c].dlUrl))
    /\ \A p \in SupportedPlatforms, a \in SupportedArchs :
           chooseKubescapeAsset(p, a) \in {AssetNames[q][b] : q \in SupportedPlatforms,
                                                              b \in SupportedArchs}

\* a second install of the latest release on an arm64 mac downloaded the
\* arm64 macos asset
C24_Witness ==
    /\ os = "darwin"
    /\ arch = "arm64"
    /\ cfg.version = TXT_LATEST
    /\ \E c \in Calls :
          /\ c > 1
          /\ IsSome(call[c].dlUrl)
          /\ Tail(Val(call[c].dlUrl)) = <<"kubescape-arm64", "-macos-latest">>
          /\ LoggedIn(call[c].log, <<"chmod">>)

\* call c is a setup made after a setup that returned false
IsRetry(c) ==
    /\ call[c].kind = "setup"
    /\ call[c].abortTok
    /\ \E d \in Calls : d < c /\ call[d].kind = "setup" /\ call[d].result = "false"

\* C25: a setup made with the same arguments and token after one that
\* returned false on a failed download runs the probe and the download
\* again, and its download request is not cancelled from the start, so
\* that it returns true when the download and the later steps succeed.
C25_RetryCanDownload ==
    \A c \in Calls :
        IsRetry(c) =>
            /\ call[c].pc /= "idle" => LoggedIn(call[c].log, <<"exec", "help">>)
            /\ call[c].pc \in {"mkdir", "fetch", "pipeline"} => ~Aborted(c)

\* the retry ran the probe and issued the download with the token the
\* failed setup had signalled, and returned false again
C25_Witness ==
    \E c \in Calls :
        /\ IsRetry(c)
        /\ LoggedIn(call[c].log, <<"exec", "help">>)
        /\ DownloadCalls(call[c].log) /= {}
        /\ \E i \in 1..Len(call[c].log) : call[c].log[i][1] = "http" /\ call[c].log[i][2] = "download"
        /\ tokAborted
        /\ call[c].result = "false"

\* a retry with the signalled token that had to download never returns true
RetryNeverInstalls ==
    \A c \in Calls :
        (IsRetry(c) /\ DownloadCalls(call[c].log) /= {}) => call[c].result /= "true"

\* the selective download of call c has handed its outcome on
StepCompleted(c) ==
    /\ Len(call[c].fw) > 0
    /\ call[c].pc \in {"select", "settled"}
    /\ call[c].result /= "none"

\* C26: the selective download starts one subprocess per requested name,
\* all at once, and hands no outcome on, success or failure, while one of
\* the subprocesses it started is still running; it fails when one failed.
C26_AllSettledFirst ==
    \A c \in Calls :
        /\ call[c].pc = "fwDownload" =>
               \A i \in 1..Len(call[c].fw) :
                   LoggedIn(call[c].log, <<"exec", "download framework", call[c].fw[i].name>>)
        /\ StepCompleted(c) =>
               /\ \A i \in 1..Len(call[c].fw) : call[c].fw[i].st /= "pending"
               /\ (\E i \in 1..Len(call[c].fw) : call[c].fw[i].st = "rejected")
                      => call[c].result = "rejected"

\* the step rejected to setup on the first failure while another of its
\* subprocesses was still running
C26_Witness ==
    \E c \in Calls :
        /\ call[c].kind = "setup"
        /\ call[c].pc = "settled"
        /\ call[c].result = "rejected"
        /\ \E i, j \in 1..Len(call[c].fw) :
               /\ call[c].fw[i].st = "rejected"
               /\ call[c].fw[j].st = "pending"

\* the version subcommand of call c failed
VersionFailed(c) ==
    /\ call[c].kind = "setup"
    /\ LoggedIn(call[c].log, <<"throw", "version">>)

\* C27: when the version subcommand of an installed binary fails during
\* setup, setup returns false and the orchestrator stays uninitialized.
C27_VersionFailureSurfaced ==
    \A c \in Calls :
        VersionFailed(c) ~> (call[c].result = "false" /\ ~isInitialized)

\* the probe found the binary, its version subcommand failed, and setup
\* is suspended for good with the error raised outside every handler
C27_Witness ==
    \E c \in Calls :
        /\ VersionFailed(c)
        /\ call[c].probe = "ok"
        /\ call[c].pc = "hung"
        /\ call[c].result = "pending"
        /\ unhandled
        /\ ~isInitialized

\* a setup whose version subcommand failed never returns
VersionFailureHangs ==
    \A c \in Calls : VersionFailed(c) => (call[c].pc = "hung" /\ call[c].result = "pending")

\* the first entry of a catalog list for each name
FirstOfName(entries, i) == \A j \in 1..(i - 1) : entries[j].name /= entries[i].name

\* C28: framework provisioning merges the on-disk scan into the catalog
\* before any download result: once setup has scanned the directory, every
\* name the scan found is cataloged at the path the scan found it at,
\* whatever a selective or bulk download reports for that name afterwards.
C28_ScanMergedFirst ==
    \A c \in Calls :
        (/\ call[c].kind = "setup"
         /\ call[c].pc \in {"required", "fwDownload", "dlAll", "select", "settled"}
         /\ call[c].result \in {"pending", "true"}
         /\ IsSome(frameworks) /\ IsSome(frameworkDir))
        => LET scan == getInstalledFrameworks(Val(frameworkDir), call[c].listed)
           IN  \A i \in 1..Len(scan) :
                   FirstOfName(scan, i) =>
                       /\ HasKey(Val(frameworks), scan[i].name)
                       /\ Entry(Val(frameworks), scan[i].name).location = scan[i].location

\* setup succeeded after a download reported, for a name the scan had
\* found, another path than the scan's; the catalog holds the scan's
C28_Witness ==
    \E c \in Calls :
        /\ call[c].kind = "setup"
        /\ call[c].result = "true"
        /\ IsSome(frameworks) /\ IsSome(frameworkDir)
        /\ LET scan == getInstalledFrameworks(Val(frameworkDir), call[c].listed)
           IN  \E i \in 1..Len(scan), j \in 1..Len(call[c].fw) :
                   /\ call[c].fw[j].st = "resolved"
                   /\ Val(call[c].fw[j].res).name = scan[i].name
                   /\ Val(call[c].fw[j].res).location /= scan[i].location
                   /\ Entry(Val(frameworks), scan[i].name).location = scan[i].location

\* C29: enrichment changes only the matched entries: an entry of
\* report.summaryDetails.controls whose identifier is in the lookup gets
\* the lookup's description and remediation and keeps the rest of it; an
\* entry whose identifier is not in the lookup, the set of entries and
\* every other part of the report are as the scanner wrote them.
C29_OnlyMatchedChange ==
    \A c \in Calls :
        (ScanReported(c) /\ IsSome(call[c].scanned)) =>
            LET before == Val(call[c].scanned)
                after == Val(call[c].value)
            IN  /\ DOMAIN after.controls = DOMAIN before.controls
                /\ after.rest = before.rest
                /\ \A k \in DOMAIN before.controls :
                       IF Occurrences(k, call[c].listed) /= {}
                       THEN /\ after.controls[k].description
                                   = FirstControl(k, call[c].listed).description
                            /\ after.controls[k].remediation
                                   = FirstControl(k, call[c].listed).remediation
                            /\ after.controls[k].status = before.controls[k].status
                       ELSE after.controls[k] = before.controls[k]

\* a report came back with the texts of C-0001 replaced by the lookup's and
\* with the entry for C-0003, which no bundle is keyed by, as it was
C29_Witness ==
    \E c \in Calls :
        /\ ScanReported(c) /\ IsSome(call[c].scanned)
        /\ DOMAIN Val(call[c].scanned).controls = {"C-0001", "C-0003"}
        /\ Val(call[c].scanned).controls["C-0001"].description = Some("own")
        /\ Val(call[c].value).controls["C-0001"].description = Some("d")
        /\ Occurrences("C-0003", call[c].listed) = {}
        /\ Val(call[c].scanned).controls["C-0003"].description = Some("own")
        /\ Val(call[c].value).controls["C-0003"].description = Some("own")

\* where controlID k occurs in the bundles of the catalog entries:
\* <<entry, control>> positions
CatalogOccurrences(k, entries) ==
    UNION {{<<i, j>> : j \in {j \in 1..Len(Controls(FileAt(entries[i].location)[2])) :
                                 Controls(FileAt(entries[i].location)[2])[j].controlID = k}} :
           i \in 1..Len(entries)}

\* the first control with controlID k in the bundles of the catalog entries
FirstCataloged(k, entries) ==
    LET h == CHOOSE h \in CatalogOccurrences(k, entries) :
                 \A g \in CatalogOccurrences(k, entries) :
                     h[1] < g[1] \/ (h[1] = g[1] /\ h[2] <= g[2])
    IN  Controls(FileAt(entries[h[1]].location)[2])[h[2]]

\* C30: both control lookups, the map getControlsMap builds and the object
\* the frameworkControlsData accessor returns, give for each identifier the
\* definition of its first occurrence across the bundles read; a later
\* bundle that defines the identifier again does not replace it.
C30_FirstOccurrenceKept ==
    (isInitialized /\ IsSome(frameworks) /\ IsSome(frameworkDir)) =>
        /\ \A c \in Calls :
               ScanReported(c) =>
                   LET m == getControlsMap(Val(frameworkDir), call[c].listed)
                   IN  \A k \in DOMAIN m : m[k] = FirstControl(k, call[c].listed)
        /\ get_frameworkControlsData[1] = Return(0)[1] =>
               \A k \in DOMAIN get_frameworkControlsData[2] :
                   get_frameworkControlsData[2][k] = FirstCataloged(k, Val(frameworks))

\* two cataloged bundles define C-0001, and the accessor returns the
\* definition of the later one
C30_Witness ==
    /\ isInitialized /\ IsSome(frameworks)
    /\ get_frameworkControlsData[1] = Return(0)[1]
    /\ "C-0001" \in DOMAIN get_frameworkControlsData[2]
    /\ FirstCataloged("C-0001", Val(frameworks)).description = Some("d")
    /\ get_frameworkControlsData[2]["C-0001"].description = Some("e")

----------------------------------------------------------------------------
\* The on-disk scan over framework directories of any spelling

\* a host with the requested binary, the test's frameworks, and a framework
\* directory given plainly or with an encoded percent sign in its name,
\* holding any of the initial file sets
InitCatalog ==
    /\ os = "linux"
    /\ arch = "x64"
    /\ cfg \in [version             : {"v2.0.144"},
                baseDirectory       : {<<"tmp">>},
                frameworksDirectory : {Some(<<"fw">>), Some(<<"fw", "%25">>)},
                requiredFrameworks  : {Some(<<"nsa">>)},
                scanFrameworks      : {Some(<<"nsa">>)}]
    /\ disk = [l \in Locations(cfg.baseDirectory, os) |-> cfg.version]
    /\ \E fs \in InitialFiles :
          fwFiles = [d \in FwDirs(cfg, os) |->
                        IF d = getKubescapePath(cfg.baseDirectory, os).baseDir
                        THEN {} ELSE fs]
    /\ InitApi

\* setup on a host that has the binary, the framework downloads and scans
NextCatalog ==
    \/ NextScan
    \/ \E c \in Calls, i \in 1..2, err \in BOOLEAN, parsable \in BOOLEAN :
          FwExecDone(c, i, err, parsable)

SpecCatalog == InitCatalog /\ [][NextCatalog]_vars

\* getInstalledFrameworks of call c has just been merged into the catalog
JustScanned(c) ==
    /\ call[c].kind = "setup"
    /\ call[c].pc = "required"
    /\ IsSome(frameworks) /\ IsSome(frameworkDir)

\* the catalog has an entry under the name the scan gives file f
Cataloged(f) == HasKey(Val(frameworks), Lower(Stem(f.fname)))

\* C31: the on-disk scan catalogs a file of the framework directory exactly
\* when its name ends in .json and its content parses to an object with a
\* controls collection; the other files are left out without an exception
\* and without keeping the remaining files from being cataloged.
C31_CatalogsExactlyBundles ==
    \A c \in Calls :
        JustScanned(c) =>
            \A f \in fwFiles[Val(frameworkDir)] :
                Cataloged(f) <=> (EndsWithJson(f.fname) /\ f.bundle)

\* the framework directory has a percent sign in its name and holds a
\* bundle, and the scan has cataloged nothing
C31_Witness ==
    \E c \in Calls :
        /\ JustScanned(c)
        /\ DecodeThrows(Val(frameworkDir))
        /\ \E f \in fwFiles[Val(frameworkDir)] : EndsWithJson(f.fname) /\ f.bundle
        /\ Val(frameworks) = <<>>

\* in a directory whose name has no percent sign the scan catalogs exactly
\* the bundle files
PlainDirCatalogsBundles ==
    \A c \in Calls :
        (JustScanned(c) /\ ~DecodeThrows(Val(frameworkDir))) =>
            \A f \in fwFiles[Val(frameworkDir)] :
                Cataloged(f) <=> (EndsWithJson(f.fname) /\ f.bundle)

----------------------------------------------------------------------------
\* The download protocols by detected version

\* a host whose binary prints either release tag or no tag at all, with a
\* plain base directory or one holding an environment token, and the
\* selective or the bulk download required
InitProtocol ==
    /\ os = "linux"
    /\ arch = "x64"
    /\ cfg \in [version             : Versions,
                baseDirectory       : {<<"tmp">>, <<"$V">>},
                frameworksDirectory : {Some(<<"fw">>)},
                requiredFrameworks  : {None, Some(<<"nsa">>)},
                scanFrameworks      : {Some(<<"nsa">>)}]
    /\ \E b \in {"nover"} \cup VERS :
          disk = [l \in Locations(cfg.baseDirectory, os) |->
                     IF l = getKubescapePath(cfg.baseDirectory, os).fullPath THEN b ELSE "absent"]
    /\ fwFiles = [d \in FwDirs(cfg, os) |-> {}]
    /\ InitApi

\* one setup on such a host
SpecProtocol == InitProtocol /\ [][NextFairSetup]_vars

\* the bulk download of call c ran with the version not known
BulkWithUnknownVersion(c) ==
    /\ call[c].kind = "setup"
    /\ IsSome(versionInfo) /\ Val(versionInfo).version = UNKNOWN
    /\ LoggedIn(call[c].log, <<"exec", "download artifacts">>)

\* C32: the download output is parsed by the protocol of the detected
\* version (JSON on standard error from v2.0.150 on, quoted text on
\* standard output before); when the version is the "unknown" placeholder
\* the bulk download sniffs the output instead of faulting, so that setup
\* is suspended for good only when the subprocess itself failed.
C32_UnknownVersionSniffs ==
    \A c \in Calls :
        /\ \A i \in 1..Len(call[c].fw) :
               (call[c].fw[i].st = "resolved" /\ IsSome(call[c].fw[i].res) /\ IsSome(versionInfo))
               => Val(call[c].fw[i].res)
                      = DownloadResult(call[c].fw[i].name, call[c].fw[i].dir,
                                       Val(versionInfo).version)
        /\ (BulkWithUnknownVersion(c) /\ call[c].pc = "hung")
               => LoggedIn(call[c].log, <<"throw", "download artifacts">>)

\* the bulk download subprocess succeeded, wrote its files, and setup is
\* suspended for good on the comparison of the unknown version
C32_Witness ==
    \E c \in Calls :
        /\ BulkWithUnknownVersion(c)
        /\ call[c].pc = "hung"
        /\ unhandled
        /\ ~LoggedIn(call[c].log, <<"throw", "download artifacts">>)
        /\ \E f \in fwFiles[Val(frameworkDir)] : f.fname = "mitre.json"

----------------------------------------------------------------------------
\* The legacy variant of the orchestrator (src/src/index.ts)

\* frameworkFile.split('.')[0]
StemLegacy(fname) ==
    CASE fname = "nsa.json"   -> "nsa"
      [] fname = "NSA.json"   -> "NSA"
      [] fname = "mitre.json" -> "mitre"
      [] fname = "bad.json"   -> "bad"
      [] fname = "notes.txt"  -> "notes"
      [] OTHER                -> fname

getInstalledFrameworksLegacy(dir, files) ==
    LET frameworkFiles == SelectSeq(files, LAMBDA f : EndsWithJson(f.fname) /\ ReadsBundle(dir, f))
    IN  [i \in 1..Len(frameworkFiles) |->
            [name        |-> Lower(StemLegacy(frameworkFiles[i].fname)),
             isInstalled |-> FALSE,
             location    |-> expand(join(dir, frameworkFiles[i].fname))]]

\* the callback of the version subcommand: the version from standard
\* output, isLatest false when standard error names another tag (stale)
VersionDoneLegacy(c, ok, stale) ==
    /\ call[c].pc = "version"
    /\ Turn(c)
    /\ ok => Runnable(disk[Val(kpath).fullPath])
    /\ LET out == disk[Val(kpath).fullPath]
       IN  IF ~ok
           THEN \* throw Error(stderr) inside the async callback
                /\ call' = [Hang(c) EXCEPT ![c].log = Append(@, <<"throw", "version">>)]
                /\ unhandled' = TRUE
                /\ UNCHANGED versionInfo
           ELSE /\ versionInfo' = Some(IF out \in VERS
                                       THEN [version |-> out, isLatest |-> ~stale]
                                       ELSE [version |-> UNKNOWN, isLatest |-> TRUE])
                /\ call' = [call EXCEPT ![c].pc = call[c].verRet]
                /\ UNCHANGED unhandled
    /\ UNCHANGED <<envVars, disk, fwFiles, unlinkPending, tokAborted,
                   isInitialized, isInstalled, kpath, frameworkDir, frameworks>>

\* the catalog is reset and the framework directory taken from the
\* configuration: expanded inside the try, the kubescape directory when
\* absent or when the decoding for mkdir raises
Phase5Legacy(c) ==
    /\ call[c].pc = "phase5"
    /\ Turn(c)
    /\ frameworks' = Some(<<>>)
    /\ LET raw == cfg.frameworksDirectory
       IN  IF IsSome(raw) /\ Len(Val(raw)) > 0
           THEN IF DecodeThrows(expand(Val(raw)))
                THEN /\ frameworkDir' = Some(Val(kpath).baseDir)
                     /\ call' = CallReaddir(c)
                ELSE /\ frameworkDir' = Some(expand(Val(raw)))
                     /\ call' = [call EXCEPT ![c].pc = "fwMkdir", ![c].log = Append(@, <<"mkdir">>)]
           ELSE /\ frameworkDir' = Some(Val(kpath).baseDir)
                /\ call' = CallReaddir(c)
    /\ UNCHANGED <<envVars, disk, fwFiles, unlinkPending, tokAborted, unhandled,
                   isInitialized, isInstalled, kpath, versionInfo>>

\* getInstalledFrameworks settled: readdir of the decoded directory
ReaddirDoneLegacy(c, ok) ==
    /\ call[c].pc = "readdir"
    /\ Turn(c)
    /\ LET dir == Val(frameworkDir)
       IN  IF ok /\ ~DecodeThrows(dir) /\ resolve(decodeURIComponent(dir)) \in DOMAIN fwFiles
           THEN \E files \in Listings(fwFiles[resolve(decodeURIComponent(dir))]) :
                    /\ frameworks' = appendToFrameworks(frameworks,
                                          getInstalledFrameworksLegacy(dir, files))
                    /\ call' = [call EXCEPT ![c].pc = "required", ![c].listed = files]
           ELSE /\ call' = Settle(c, "rejected")
                /\ UNCHANGED frameworks
    /\ UNCHANGED <<envVars, disk, fwFiles, unlinkPending, tokAborted, unhandled,
                   isInitialized, isInstalled, kpath, frameworkDir, versionInfo>>

\* the frameworks to scan with are marked and setup returns true; the
\* initialized flag is not written
SelectLegacy(c) ==
    /\ call[c].pc = "select"
    /\ Turn(c)
    /\ LET cat == Val(frameworks)
           scan == cfg.scanFrameworks
           scanFrameworks == IF ~IsSome(scan) \/ Contains(Val(scan), "all")
                             THEN Keys(cat) ELSE Val(scan)
           bad == {i \in 1..Len(scanFrameworks) : ~HasKey(cat, scanFrameworks[i])}
       IN  IF bad = {}
           THEN /\ frameworks' = MarkInstalled(frameworks, scanFrameworks)
                /\ call' = Settle(c, "true")
           ELSE LET k == CHOOSE i \in bad : \A j \in bad : i <= j
                IN  /\ frameworks' = MarkInstalled(frameworks, SubSeq(scanFrameworks, 1, k - 1))
                    /\ call' = Settle(c, "rejected")
    /\ UNCHANGED <<envVars, disk, fwFiles, unlinkPending, tokAborted, unhandled,
                   isInitialized, isInstalled, kpath, frameworkDir, versionInfo>>

\* a linux host with or without the requested binary, the kubescape
\* directory as framework directory, and the required framework on disk
InitLegacy ==
    /\ os = "linux"
    /\ arch = "x64"
    /\ cfg \in [version             : VERS,
                baseDirectory       : {<<"tmp">>},
                frameworksDirectory : {None},
                requiredFrameworks  : {Some(<<"nsa">>)},
                scanFrameworks      : {Some(<<"nsa">>), Some(<<"mitre">>)}]
    /\ \E b \in {"absent"} \cup VERS :
          disk = [l \in Locations(cfg.baseDirectory, os) |->
                     IF l = getKubescapePath(cfg.baseDirectory, os).fullPath THEN b ELSE "absent"]
    /\ \E fs \in {{[fname |-> "nsa.json", bundle |-> TRUE]},
                  {[fname |-> "NSA.json", bundle |-> TRUE], [fname |-> "mitre.json", bundle |-> TRUE]}} :
          fwFiles = [d \in FwDirs(cfg, os) |-> fs]
    /\ InitApi

\* the legacy setup, with the install of a concrete version
NextLegacy ==
    \/ \E c \in Calls, tok \in TokChoices : SetupStart(c, tok)
    \/ \E c \in Calls, ok \in BOOLEAN : ProbeDone(c, ok)
    \/ \E c \in Calls, ok \in BOOLEAN, stale \in BOOLEAN : VersionDoneLegacy(c, ok, stale)
    \/ \E c \in Calls : Reconcile(c)
    \/ \E c \in Calls : Phase4(c)
    \/ \E c \in Calls : InstallBegin(c)
    \/ \E c \in Calls : DownloadBegin(c)
    \/ \E c \in Calls, ok \in BOOLEAN : MkdirDone(c, ok)
    \/ \E c \in Calls, o \in FetchOutcomes : FetchDone(c, o)
    \/ \E c \in Calls, ok \in BOOLEAN : PipelineDone(c, ok)
    \/ \E c \in Calls, ok \in BOOLEAN : ChmodDone(c, ok)
    \/ Unlinks
    \/ Cancel
    \/ \E c \in Calls : DownloadReturn(c)
    \/ \E c \in Calls : Phase5Legacy(c)
    \/ \E c \in Calls, ok \in BOOLEAN : ReaddirDoneLegacy(c, ok)
    \/ \E c \in Calls : Required(c)
    \/ \E c \in Calls : SelectLegacy(c)

SpecLegacy == InitLegacy /\ [][NextLegacy]_vars

\* call c is a setup made after a setup that returned true
AfterSuccess(c) ==
    /\ call[c].kind = "setup"
    /\ \E d \in Calls : d < c /\ call[d].kind = "setup" /\ call[d].result = "true"

\* C33: the legacy setup is idempotent: a setup call made after one that
\* returned true returns true at once, without the install probe, the
\* version subcommand, a download or a framework subcommand.
C33_LegacyIdempotent ==
    \A c \in Calls :
        AfterSuccess(c) =>
            /\ call[c].pc = "settled"
            /\ call[c].result = "true"
            /\ call[c].log = <<>>

\* after a legacy setup returned true the instance is not initialized, and
\* the next setup has run the install probe and the version subcommand
C33_Witness ==
    \E c \in Calls :
        /\ AfterSuccess(c)
        /\ ~isInitialized
        /\ LoggedIn(call[c].log, <<"exec", "help">>)
        /\ LoggedIn(call[c].log, <<"exec", "version">>)

\* no legacy call ever sets the initialized flag
LegacyNeverInitialized == ~isInitialized

\* call c is a setup that is installing the binary into the directory
\* accessor, past the decoding of the target directory
SetupInstalling(c) ==
    /\ call[c].kind = "setup"
    /\ IsSome(call[c].downloadDir)
    /\ call[c].pc \in {"mkdir", "fetch", "pipeline", "chmod", "dlRet"}

\* C34: the binary location is one location: the fullPath the install
\* probe and every later subprocess call use is baseDir joined with the
\* binary file name of the OS, and it is the file downloadFile writes when
\* setup installs into the directory accessor, whatever the base directory
\* string (URL-encoded, with ~ or with an environment token).
C34_OneBinaryLocation ==
    IsSome(kpath) =>
        /\ Val(kpath).fullPath = join(Val(kpath).baseDir, getOsKubescapeFilename(os))
        /\ \A c \in Calls :
               SetupInstalling(c) => LocalPath(c) = Val(kpath).fullPath

\* setup's install has written the binary of the requested version, to a
\* file that is not the one the probe looked at, which is still absent
C34_Witness ==
    \E c \in Calls :
        /\ SetupInstalling(c)
        /\ call[c].pc = "dlRet"
        /\ call[c].dlOk
        /\ LocalPath(c) /= Val(kpath).fullPath
        /\ disk[LocalPath(c)] = cfg.version
        /\ disk[Val(kpath).fullPath] = "absent"

\* for a base directory without an environment token, a leading ~ or an
\* encoded percent sign the three paths are one
PlainBaseDirOneLocation ==
    (IsSome(kpath) /\ cfg.baseDirectory = <<"tmp">>) =>
        /\ Val(kpath).fullPath = join(Val(kpath).baseDir, getOsKubescapeFilename(os))
        /\ \A c \in Calls :
               SetupInstalling(c) => LocalPath(c) = Val(kpath).fullPath

\* a step of scan call c: its start, one of its callbacks, or the removal
\* of its temporary directory (and not the archiving of the settled call)
ScanStep(c) ==
    /\ call'[c].kind \in ScanKinds
    /\ call'[c] /= call[c]
    /\ call[c].pc /= "settled" \/ call'[c].tmp /= call[c].tmp

\* C35: scans are read-only on the orchestrator: no step of a scanYaml or
\* scanCluster call, whatever the call ends with, changes the install
\* path, isInstalled, the version info, the framework directory, the
\* initialized flag or the catalog (keys, locations, isInstalled flags).
C35_ScansReadOnly ==
    [][(\E c \in Calls : ScanStep(c)) => apiVars' = apiVars]_vars

\* after a successful setup a scan ended without a report, and the
\* orchestrator still holds its path, version, directory and the catalog
\* with the framework setup activated
C35_Witness ==
    \E c \in Calls :
        /\ call[c].kind \in ScanKinds
        /\ call[c].pc = "settled"
        /\ call[c].result = "empty"
        /\ isInitialized /\ isInstalled
        /\ IsSome(kpath) /\ IsSome(versionInfo) /\ IsSome(frameworkDir)
        /\ IsSome(frameworks)
        /\ frameworksNames = <<"nsa">>

----------------------------------------------------------------------------
\* installFrameworks on an initialized orchestrator

\* the lists installFrameworks is called with: names in the catalog's
\* spelling and in another letter case
CasedFrameworkLists == {<<"mitre", "nsa">>, <<"NSA">>, <<"NSA", "mitre">>}

\* setup on a host that has the binary, then installFrameworks
NextInstallFw ==
    \/ NextCatalog
    \/ \E c \in Calls, names \in CasedFrameworkLists : InstallFrameworksStart(c, names)

SpecInstallFw == InitCatalog /\ [][NextInstallFw]_vars

\* a step of an installFrameworks call c made on an initialized orchestrator
InstallFwStep(c) ==
    /\ isInitialized
    /\ call'[c].kind = "installFrameworks"
    /\ call'[c] /= call[c]
    /\ call[c].pc /= "settled"

\* what a step of call c may do to the entries the catalog had: mark the
\* asked ones active when the call begins, and nothing else
KeepsEntries(c) ==
    /\ Len(Val(frameworks')) >= Len(Val(frameworks))
    /\ \A i \in 1..Len(Val(frameworks)) :
           Val(frameworks')[i] =
               IF call[c].pc = "idle" /\ Contains(call'[c].asked, Val(frameworks)[i].name)
               THEN [Val(frameworks)[i] EXCEPT !.isInstalled = TRUE]
               ELSE Val(frameworks)[i]

\* the subprocesses call c starts: one for each asked name that is no key
StartsMissing(c) ==
    call[c].pc = "idle" =>
        /\ \A i \in 1..Len(call'[c].asked) :
               HasKey(Val(frameworks), call'[c].asked[i])
               <=> ~LoggedIn(call'[c].log, <<"exec", "download framework", call'[c].asked[i]>>)
        /\ Len(Val(frameworks')) = Len(Val(frameworks))

\* entries are added only when the call resolves, with isInstalled false
AddsInactive(c) ==
    \A i \in (Len(Val(frameworks)) + 1)..Len(Val(frameworks')) :
        /\ call'[c].result = "resolved"
        /\ ~Val(frameworks')[i].isInstalled

----------------------------------------------------------------------------
\* What the initialized flag stands for

\* everything setup provides is there
EverythingDefined ==
    /\ isInstalled
    /\ IsSome(kpath)
    /\ IsSome(versionInfo)
    /\ IsSome(frameworkDir)
    /\ IsSome(frameworks)

\* C37: in every reachable state the initialized flag implies that the
\* binary counts as installed and that the path, the version info, the
\* framework directory and the catalog are defined.
C37_InitializedMeansReady == isInitialized => EverythingDefined

\* C37, second half: the initialized flag never goes back to false
C37_InitializedStays == [][isInitialized => isInitialized']_vars

\* a setup that began before another one completed has found no runnable
\* binary while the instance is flagged initialized
C37_Witness ==
    /\ isInitialized
    /\ ~isInstalled
    /\ \E c, d \in Calls :
           /\ c < d
           /\ call[c].kind = "setup" /\ call[c].result = "true"
           /\ call[d].kind = "setup" /\ call[d].pc \notin {"idle", "settled"}

----------------------------------------------------------------------------
\* A download request that is answered badly

\* the step in which the fetch of call c fails or is answered with a
\* non-successful response or one without a body
FetchFailedStep(c) ==
    /\ call[c].pc = "fetch"
    /\ call'[c].pc = "dlRet"
    /\ ~call'[c].dlOk

\* C38: when the download request gets a non-successful response or one
\* without a body, downloadFile neither creates nor modifies nor deletes
\* the file at the target path (nor any other), and issues no unlink.
C38_BadResponseKeepsFile ==
    [][\A c \in Calls :
           FetchFailedStep(c) =>
               /\ disk' = disk
               /\ unlinkPending' = unlinkPending
               /\ call'[c].log = call[c].log]_vars

\* the request of a download over a runnable binary of another version
\* failed, and the binary is where it was
C38_Witness ==
    \E c \in Calls :
        /\ call[c].pc = "dlRet"
        /\ ~call[c].dlOk
        /\ call[c].log[Len(call[c].log)][1] = "http"
        /\ Runnable(disk[LocalPath(c)])
        /\ unlinkPending = {}

----------------------------------------------------------------------------
\* The selection of the frameworks to scan with

\* C39: the selection never faults: a setup that reached the selection of
\* the scan frameworks completes (returns true), whatever names the scan
\* list holds.
C39_SelectionNeverFaults ==
    [][\A c \in Calls :
           (call[c].pc = "select" /\ call'[c] /= call[c]) => call'[c].result = "true"]_vars

\* C39, second half: every name frameworksNames returns is a key of the
\* catalog
NamesAreKeys ==
    \A i \in 1..Len(frameworksNames) :
        HasKey(Val(frameworks), frameworksNames[i])

\* setup provisioned every required framework and was rejected, with a scan
\* list naming a framework that is no key of the catalog
C39_Witness ==
    \E c \in Calls :
        /\ call[c].kind = "setup"
        /\ call[c].result = "rejected"
        /\ IsSome(frameworks)
        /\ IsSome(cfg.requiredFrameworks)
        /\ \A i \in 1..Len(Val(cfg.requiredFrameworks)) :
               HasKey(Val(frameworks), Lower(Val(cfg.requiredFrameworks)[i]))
        /\ IsSome(cfg.scanFrameworks)
        /\ \E i \in 1..Len(Val(cfg.scanFrameworks)) :
               ~HasKey(Val(frameworks), Val(cfg.scanFrameworks)[i])
        /\ ~isInitialized

====
